---- MODULE Spec2Model ----
(***************************************************************************)
(* Request/response protocol handler of the Gemini chat scripts.           *)
(*                                                                         *)
(* Three scripts are modelled side by side:                                *)
(*   "code"   src/.old/code.py                                             *)
(*   "piper"  src/gemini.espeak_and_piper.py                               *)
(*   "piper1" src/.old/gemini.espeak_and_piper1.py                         *)
(* Each has its own _format_gemini_payload, _call_gemini_api,              *)
(* _parse_gemini_response and main loop; a definition that models the      *)
(* function of one script carries the script's name as a suffix.           *)
(*                                                                         *)
(* Text is a sequence of tokens (a token is a string that is never split): *)
(* "Error: x" is <<"Error", ":", " x">>, so that startswith("Error:") and  *)
(* startswith("Error") are different tests, as they are in Python.         *)
(***************************************************************************)
EXTENDS Naturals, Sequences, FiniteSets, TLC

VARIABLES
    script,      \* which script runs
    mode,        \* "session" (main loop), "parse" or "build" (one function applied to one input)
    history,     \* main(): the list of [query, response] turns
    fs,          \* the files of the working directory, by name
    last,        \* what the last loop iteration did (input, outcome, history before, TTS call)
    ops,         \* number of loop iterations so far
    running,     \* FALSE once the loop has ended
    arg,         \* the input of the function under "parse"/"build"
    result       \* its output

vars == <<script, mode, history, fs, last, ops, running, arg, result>>

-----------------------------------------------------------------------------
(* Bounds of the model *)

\* loop iterations explored in one session
MaxOps == 2
\* turns by which the overfull history file exceeds the cap
Overfill == 1
\* longest history handed to _format_gemini_payload under SpecBuild
MaxBuildLen == 2

\* the longest text, in tokens, given to the fence cleaning
MaxFenceLen == 6

\* seconds that pass in one step of a call in flight
TickSeconds == 30

\* seconds after which a call without a timeout is no longer followed
MaxWait == 300

\* iterations of a main loop whose exceptions are followed
MaxTurns == 4

\* iterations of the gen_ai_console chat loop
MaxAppTurns == 6

\* the largest reading of the elapsed seconds the timer loop may see
MaxElapsed == 180

-----------------------------------------------------------------------------
(* Text *)

Scripts == {"code", "piper", "piper1"}

\* a JSON field that is absent (dict.get returns None)
Absent == "<absent>"

Min(a, b) == IF a < b THEN a ELSE b

Max(a, b) == IF a > b THEN a ELSE b

\* str.startswith
startswith(s, p) == Len(s) >= Len(p) /\ SubSeq(s, 1, Len(p)) = p

\* s[:n]
Prefix(s, n) == SubSeq(s, 1, Min(n, Len(s)))

\* lst[-n:]
LastN(s, n) == SubSeq(s, Max(1, Len(s) - n + 1), Len(s))

Whitespace == {" ", "\n"}

RECURSIVE lstrip(_)
lstrip(s) ==
    IF s # <<>> /\ Head(s) \in Whitespace THEN lstrip(Tail(s)) ELSE s

RECURSIVE rstrip(_)
rstrip(s) ==
    IF s # <<>> /\ s[Len(s)] \in Whitespace THEN rstrip(SubSeq(s, 1, Len(s) - 1)) ELSE s

\* str.strip
strip(s) == rstrip(lstrip(s))

\* "".join(seq of texts)
RECURSIVE join(_)
join(ts) ==
    IF ts = <<>> THEN <<>> ELSE Head(ts) \o join(Tail(ts))

\* sep.join(seq of texts)
RECURSIVE joinsep(_, _)
joinsep(sep, ts) ==
    IF ts = <<>> THEN <<>>
    ELSE IF Len(ts) = 1 THEN Head(ts)
    ELSE Head(ts) \o sep \o joinsep(sep, Tail(ts))

\* t occurs in s as a contiguous run of tokens
Contains(s, t) ==
    \E i \in 1..(Len(s) - Len(t) + 1) : SubSeq(s, i, i + Len(t) - 1) = t

-----------------------------------------------------------------------------
(* The decoded response body: the shapes the parsers tell apart *)

FinishReasons ==
    {Absent, "STOP", "MAX_TOKENS", "SAFETY", "RECITATION", "FINISH_REASON_UNSPECIFIED"}

BlockReasons == {Absent, "SAFETY", "BLOCK_REASON_UNSPECIFIED"}

\* texts a part can carry; the last one is a fenced code block with a language
\* tag (the token "<fence>" stands for a run of three backticks)
PartTexts ==
    {<<>>, <<"Hi.">>, <<" ">>, <<"Error", ":", " x">>,
     <<"<fence>", "python", "\n", "print(1)", "\n", "<fence>">>}

\* one element of content.parts: a dict with or without a 'text' key
Parts ==
    {[hasText |-> FALSE, text |-> <<>>]} \cup {[hasText |-> TRUE, text |-> t] : t \in PartTexts}

NoPart == [hasText |-> FALSE, text |-> <<>>]

Part(t) == [hasText |-> TRUE, text |-> t]

\* candidate.content: missing/null, {}, or a dict that may hold 'parts' and 'text'
NoContent == [kind |-> "missing", hasParts |-> FALSE, parts |-> <<>>, hasText |-> FALSE, text |-> <<>>]

EmptyContent == [kind |-> "empty", hasParts |-> FALSE, parts |-> <<>>, hasText |-> FALSE, text |-> <<>>]

ContentParts(ps) == [kind |-> "dict", hasParts |-> TRUE, parts |-> ps, hasText |-> FALSE, text |-> <<>>]

ContentNoParts == [kind |-> "dict", hasParts |-> FALSE, parts |-> <<>>, hasText |-> FALSE, text |-> <<>>]

ContentText(t) == [kind |-> "dict", hasParts |-> FALSE, parts |-> <<>>, hasText |-> TRUE, text |-> t]

PartLists ==
    {<<>>} \cup {<<p>> : p \in Parts}
    \cup {<<Part(<<"Hi.">>), Part(<<"Hi.">>)>>, <<Part(<<>>), Part(<<"Hi.">>)>>, <<NoPart, Part(<<" ">>)>>}

Contents ==
    {NoContent, EmptyContent, ContentNoParts, ContentText(<<"Hi.">>)}
    \cup {ContentParts(ps) : ps \in PartLists}

\* one element of candidates: null, {}, or a dict
NullCandidate ==
    [kind |-> "null", finishReason |-> Absent, safetyRatings |-> Absent, content |-> NoContent]

Candidate(fr, sr, c) ==
    [kind |-> "dict", finishReason |-> fr, safetyRatings |-> sr, content |-> c]

Candidates ==
    {NullCandidate}
    \cup {Candidate(fr, sr, c) : fr \in FinishReasons, sr \in {Absent, "HIGH"}, c \in Contents}

\* the 'candidates' field: missing, null, or a list
CandidateLists ==
    {[kind |-> "missing", items |-> <<>>], [kind |-> "null", items |-> <<>>], [kind |-> "list", items |-> <<>>]}
    \cup {[kind |-> "list", items |-> <<c>>] : c \in Candidates}

NoError == [has |-> FALSE, message |-> Absent, code |-> Absent]

ErrorObjects ==
    {NoError, [has |-> TRUE, message |-> "X", code |-> "7"], [has |-> TRUE, message |-> Absent, code |-> Absent]}

NoFeedback == [has |-> FALSE, blockReason |-> Absent]

Feedbacks == {NoFeedback} \cup {[has |-> TRUE, blockReason |-> b] : b \in BlockReasons}

\* response.json(): raises JSONDecodeError ("invalid"), or returns a value that is
\* not an object ("other"), or an object with these fields
JsonObject(e, f, c) == [json |-> "object", error |-> e, promptFeedback |-> f, candidates |-> c]

InvalidJson ==
    [json |-> "invalid", error |-> NoError, promptFeedback |-> NoFeedback,
     candidates |-> [kind |-> "missing", items |-> <<>>]]

NotAnObject ==
    [json |-> "other", error |-> NoError, promptFeedback |-> NoFeedback,
     candidates |-> [kind |-> "missing", items |-> <<>>]]

Bodies ==
    {InvalidJson, NotAnObject}
    \cup {JsonObject(e, f, c) : e \in ErrorObjects, f \in Feedbacks, c \in CandidateLists}

\* dict.get(key, default) on a field that may be absent
get(v, default) == IF v = Absent THEN default ELSE v

\* Python truthiness of the 'candidates' field: None and [] are falsy
truthy_candidates(cands) == cands.kind = "list" /\ cands.items # <<>>

\* Python truthiness of one candidate: None and {} are falsy
truthy_candidate(c) == c.kind = "dict"

\* Python truthiness of candidate.content: None and {} are falsy
truthy_content(c) == c.kind = "dict"

\* json.dumps / str() of a decoded value, as it is pasted into a message
json_dumps(v) == <<"<json>">>

\* json.dumps(promptFeedback): the rendering holds the block reason
json_dumps_feedback(f) == <<"{blockReason: ", f.blockReason, "}">>

\* what _call_gemini_api hands to _parse_gemini_response: an error string or
\* the requests.Response
ErrorString(s) == [isStr |-> TRUE, str |-> s, body |-> InvalidJson]

Response(b) == [isStr |-> FALSE, str |-> <<>>, body |-> b]

-----------------------------------------------------------------------------
(* Markdown fence cleaning, the same code in code.py and piper1 *)

\* index of the first "\n" token of s, 0 when there is none
RECURSIVE find_newline(_, _)
find_newline(s, i) ==
    IF i > Len(s) THEN 0 ELSE IF s[i] = "\n" THEN i ELSE find_newline(s, i + 1)

\* str.splitlines
RECURSIVE splitlines(_)
splitlines(s) ==
    IF s = <<>> THEN <<>>
    ELSE LET i == find_newline(s, 1)
         IN  IF i = 0 THEN <<s>>
             ELSE <<SubSeq(s, 1, i - 1)>> \o splitlines(SubSeq(s, i + 1, Len(s)))

\* len(s.split()): the number of maximal runs of non-whitespace tokens
RECURSIVE word_count(_)
word_count(s) ==
    IF s = <<>> THEN 0
    ELSE IF Head(s) \in Whitespace THEN word_count(Tail(s))
    ELSE IF Len(s) > 1 /\ s[2] \notin Whitespace THEN word_count(Tail(s))
    ELSE 1 + word_count(Tail(s))

\* the token that stands for a run of three backticks
Fence == "<fence>"

\* mutant of clean_fences: the fence lines go whatever the first line holds
clean_fences_any_first_line(text) ==
    IF text # <<>> /\ Head(text) = Fence /\ text[Len(text)] = Fence
    THEN LET lines == splitlines(text)
         IN  IF Len(lines) > 1
             THEN LET first_line_content == strip(Tail(strip(lines[1])))
                  IN  IF word_count(first_line_content) >= 0
                      THEN strip(joinsep(<<"\n">>, SubSeq(lines, 2, Len(lines) - 1)))
                      ELSE text
             ELSE text
    ELSE text

\* the "Code Cleaning" block: strip a leading and a trailing fence line
clean_fences(text) ==
    IF text # <<>> /\ Head(text) = Fence /\ text[Len(text)] = Fence
    THEN LET lines == splitlines(text)
         IN  IF Len(lines) > 1
             THEN LET first_line_content == strip(Tail(strip(lines[1])))
                  IN  IF word_count(first_line_content) <= 1
                      THEN strip(joinsep(<<"\n">>, SubSeq(lines, 2, Len(lines) - 1)))
                      ELSE text
             ELSE text
    ELSE text

\* mutant of extract_text: only the first part is read
extract_text_first_part(content) ==
    IF truthy_content(content) /\ content.hasParts /\ content.parts # <<>>
    THEN strip(IF content.parts[1].hasText THEN content.parts[1].text ELSE <<>>)
    ELSE IF truthy_content(content) /\ content.hasText
    THEN strip(content.text)
    ELSE <<>>

\* "Content Extraction": all parts' text joined and stripped, else content.text
extract_text(content) ==
    IF truthy_content(content) /\ content.hasParts /\ content.parts # <<>>
    THEN strip(join([i \in 1..Len(content.parts) |->
                        IF content.parts[i].hasText THEN content.parts[i].text ELSE <<>>]))
    ELSE IF truthy_content(content) /\ content.hasText
    THEN strip(content.text)
    ELSE <<>>

-----------------------------------------------------------------------------
(* _parse_gemini_response, src/.old/code.py *)

\* mutant of parse_candidate_code: STOP without text is a failure
parse_candidate_code_stop_fails(candidate) ==
    LET finish_reason == candidate.finishReason
        text == extract_text(candidate.content)
        ratings_str ==
            IF candidate.safetyRatings # Absent
            THEN <<" Safety Ratings: ", candidate.safetyRatings>> ELSE <<>>
    IN  IF finish_reason = "STOP" /\ text = <<>>
        THEN <<"Error", ":", " Failed to extract text content from candidate. Finish Reason: ",
               finish_reason, ". Candidate: ">> \o json_dumps(candidate)
        ELSE IF finish_reason = "MAX_TOKENS" /\ text # <<>>
        THEN <<"Warning", ":", " MAX_TOKENS limit reached. Output may be incomplete.", "\n", "---", "\n">> \o text
        ELSE IF finish_reason = "MAX_TOKENS"
        THEN <<"Error", ":", " Candidate finished due to maximum token limit (", finish_reason,
               "). No partial content extracted.">>
        ELSE IF finish_reason \notin {Absent, "STOP", "FINISH_REASON_UNSPECIFIED"} /\ text # <<>>
        THEN <<"Warning", ":", " Unexpected finish reason (", finish_reason,
               "). Output may be incomplete.", "\n", "---", "\n">> \o text
        ELSE IF finish_reason \notin {Absent, "STOP", "FINISH_REASON_UNSPECIFIED"}
        THEN <<"Error", ":", " Candidate finished unexpectedly. Reason: ", finish_reason,
               ". No content extracted.">> \o ratings_str
        ELSE IF text = <<>>
        THEN <<"Error", ":", " Failed to extract text content from candidate. Finish Reason: ",
               get(finish_reason, "None"), ". Candidate: ">> \o json_dumps(candidate)
        ELSE clean_fences(text)

\* mutant of parse_candidate_code: text cut at the token limit is returned with no warning
parse_candidate_code_truncation_silent(candidate) ==
    LET finish_reason == candidate.finishReason
        text == extract_text(candidate.content)
        ratings_str ==
            IF candidate.safetyRatings # Absent
            THEN <<" Safety Ratings: ", candidate.safetyRatings>> ELSE <<>>
    IN  IF finish_reason = "STOP" /\ text = <<>>
        THEN <<"Warning", ":", " Received response with no content (finish reason: STOP).">>
        ELSE IF finish_reason = "MAX_TOKENS" /\ text # <<>>
        THEN text
        ELSE IF finish_reason = "MAX_TOKENS"
        THEN <<"Error", ":", " Candidate finished due to maximum token limit (", finish_reason,
               "). No partial content extracted.">>
        ELSE IF finish_reason \notin {Absent, "STOP", "FINISH_REASON_UNSPECIFIED"} /\ text # <<>>
        THEN <<"Warning", ":", " Unexpected finish reason (", finish_reason,
               "). Output may be incomplete.", "\n", "---", "\n">> \o text
        ELSE IF finish_reason \notin {Absent, "STOP", "FINISH_REASON_UNSPECIFIED"}
        THEN <<"Error", ":", " Candidate finished unexpectedly. Reason: ", finish_reason,
               ". No content extracted.">> \o ratings_str
        ELSE IF text = <<>>
        THEN <<"Error", ":", " Failed to extract text content from candidate. Finish Reason: ",
               get(finish_reason, "None"), ". Candidate: ">> \o json_dumps(candidate)
        ELSE clean_fences(text)

\* the checks on the first candidate, after the text was extracted
parse_candidate_code(candidate) ==
    LET finish_reason == candidate.finishReason
        text == extract_text(candidate.content)
        ratings_str ==
            IF candidate.safetyRatings # Absent
            THEN <<" Safety Ratings: ", candidate.safetyRatings>> ELSE <<>>
    IN  IF finish_reason = "STOP" /\ text = <<>>
        THEN <<"Warning", ":", " Received response with no content (finish reason: STOP).">>
        ELSE IF finish_reason = "MAX_TOKENS" /\ text # <<>>
        THEN <<"Warning", ":", " MAX_TOKENS limit reached. Output may be incomplete.", "\n", "---", "\n">> \o text
        ELSE IF finish_reason = "MAX_TOKENS"
        THEN <<"Error", ":", " Candidate finished due to maximum token limit (", finish_reason,
               "). No partial content extracted.">>
        ELSE IF finish_reason \notin {Absent, "STOP", "FINISH_REASON_UNSPECIFIED"} /\ text # <<>>
        THEN <<"Warning", ":", " Unexpected finish reason (", finish_reason,
               "). Output may be incomplete.", "\n", "---", "\n">> \o text
        ELSE IF finish_reason \notin {Absent, "STOP", "FINISH_REASON_UNSPECIFIED"}
        THEN <<"Error", ":", " Candidate finished unexpectedly. Reason: ", finish_reason,
               ". No content extracted.">> \o ratings_str
        ELSE IF text = <<>>
        THEN <<"Error", ":", " Failed to extract text content from candidate. Finish Reason: ",
               get(finish_reason, "None"), ". Candidate: ">> \o json_dumps(candidate)
        ELSE clean_fences(text)

_parse_gemini_response_code(response) ==
    IF response.isStr THEN response.str
    ELSE LET response_data == response.body
             api_error == response_data.error
             candidates == response_data.candidates
             feedback == response_data.promptFeedback
             feedback_info ==
                 IF feedback.has THEN <<" Prompt Feedback: ">> \o json_dumps_feedback(feedback) ELSE <<>>
         IN  IF response_data.json = "invalid"
             THEN <<"Error", " decoding API response JSON: ", "<e>", ". Response text: ", "<text[:500]>", "...">>
             ELSE IF response_data.json = "other"
             THEN <<"Error", " processing API response structure: ", "<e>", ". Response JSON slice: ">>
                  \o json_dumps(response_data)
             ELSE IF api_error.has
             THEN <<"Error", " from API: ", get(api_error.message, "Unknown API error"),
                    " (Code: ", get(api_error.code, "N/A"), ")">>
             ELSE IF ~truthy_candidates(candidates)
             THEN <<"Error", ":", " No candidates found in response.">> \o feedback_info
                  \o <<" Response JSON: ">> \o json_dumps(response_data)
             ELSE IF ~truthy_candidate(candidates.items[1])
             THEN <<"Error", ":", " Received empty or invalid candidate list. Response JSON: ">>
                  \o json_dumps(response_data)
             ELSE parse_candidate_code(candidates.items[1])

-----------------------------------------------------------------------------
(* _parse_gemini_response, src/.old/gemini.espeak_and_piper1.py *)

\* mutant of parse_candidate_piper1: a SAFETY finish with text gets the warning of the other finish reasons
parse_candidate_piper1_safety_generic(candidate) ==
    LET finish_reason == candidate.finishReason
        safety_ratings == candidate.safetyRatings
        text == extract_text(candidate.content)
        ratings_str == IF safety_ratings # Absent THEN safety_ratings ELSE "N/A"
    IN  IF finish_reason \notin {Absent, "STOP", "FINISH_REASON_UNSPECIFIED"}
        THEN IF finish_reason = "MAX_TOKENS"
             THEN IF text # <<>>
                  THEN <<"Warning", ":", " MAX_TOKENS limit reached. Output may be incomplete.", "\n", "---", "\n">>
                       \o text
                  ELSE <<"Error", ":", " Candidate finished due to maximum token limit (", finish_reason,
                         "). No partial content extracted.">>
             ELSE IF finish_reason = "SAFETY"
             THEN IF text # <<>>
                  THEN <<"Warning", ":", " Unexpected finish reason (", finish_reason, "). Output may be incomplete.",
                         "\n", "---", "\n">> \o text
                  ELSE <<"Error", ":", " Candidate content blocked due to safety (default policy - ",
                         finish_reason, "). Ratings: ", ratings_str>>
             ELSE IF text # <<>>
                  THEN <<"Warning", ":", " Unexpected finish reason (", finish_reason,
                         "). Output may be incomplete.", "\n", "---", "\n">> \o text
                  ELSE <<"Error", ":", " Candidate finished unexpectedly. Reason: ", finish_reason,
                         ". Safety Ratings: ", get(safety_ratings, "None")>>
        ELSE IF finish_reason = "STOP" /\ text = <<>>
        THEN <<"Warning", ":", " Received response with no content (finish reason: STOP).">>
        ELSE IF text = <<>>
        THEN <<"Error", ":", " Failed to extract text content from candidate. Finish Reason: ",
               get(finish_reason, "None"), ". Candidate: ">> \o json_dumps(candidate)
        ELSE clean_fences(text)

parse_candidate_piper1(candidate) ==
    LET finish_reason == candidate.finishReason
        safety_ratings == candidate.safetyRatings
        text == extract_text(candidate.content)
        ratings_str == IF safety_ratings # Absent THEN safety_ratings ELSE "N/A"
    IN  IF finish_reason \notin {Absent, "STOP", "FINISH_REASON_UNSPECIFIED"}
        THEN IF finish_reason = "MAX_TOKENS"
             THEN IF text # <<>>
                  THEN <<"Warning", ":", " MAX_TOKENS limit reached. Output may be incomplete.", "\n", "---", "\n">>
                       \o text
                  ELSE <<"Error", ":", " Candidate finished due to maximum token limit (", finish_reason,
                         "). No partial content extracted.">>
             ELSE IF finish_reason = "SAFETY"
             THEN IF text # <<>>
                  THEN <<"Warning", ":", " SAFETY block triggered. Output may be filtered or incomplete.",
                         "\n", "---", "\n">> \o text
                  ELSE <<"Error", ":", " Candidate content blocked due to safety (default policy - ",
                         finish_reason, "). Ratings: ", ratings_str>>
             ELSE IF text # <<>>
                  THEN <<"Warning", ":", " Unexpected finish reason (", finish_reason,
                         "). Output may be incomplete.", "\n", "---", "\n">> \o text
                  ELSE <<"Error", ":", " Candidate finished unexpectedly. Reason: ", finish_reason,
                         ". Safety Ratings: ", get(safety_ratings, "None")>>
        ELSE IF finish_reason = "STOP" /\ text = <<>>
        THEN <<"Warning", ":", " Received response with no content (finish reason: STOP).">>
        ELSE IF text = <<>>
        THEN <<"Error", ":", " Failed to extract text content from candidate. Finish Reason: ",
               get(finish_reason, "None"), ". Candidate: ">> \o json_dumps(candidate)
        ELSE clean_fences(text)

\* mutant of _parse_gemini_response_piper1: the unspecified block reason blocks too
_parse_gemini_response_piper1_any_reason(response) ==
    IF response.isStr THEN response.str
    ELSE LET response_data == response.body
             api_error == response_data.error
             prompt_feedback == response_data.promptFeedback
             block_reason == prompt_feedback.blockReason
             candidates == response_data.candidates
         IN  IF response_data.json = "invalid"
             THEN <<"Error", " decoding API response JSON: ", "<e>", ". Response text: ", "<text[:500]>", "...">>
             ELSE IF response_data.json = "other"
             THEN <<"Error", " processing API response structure: ", "<e>", ". Response JSON slice: ">>
                  \o json_dumps(response_data)
             ELSE IF api_error.has
             THEN <<"Error", " from API: ", get(api_error.message, "Unknown API error"),
                    " (Code: ", get(api_error.code, "N/A"), ")">>
             ELSE IF prompt_feedback.has /\ block_reason # Absent
             THEN <<"Error", ":", " Response blocked due to content policy (default). Reason: ",
                    block_reason, ".">>
             ELSE IF ~truthy_candidates(candidates)
             THEN <<"Error", ":", " No candidates found in response and no blocking reason identified. Response JSON: ">>
                  \o json_dumps(response_data)
             ELSE IF ~truthy_candidate(candidates.items[1])
             THEN <<"Error", ":", " Received empty or invalid candidate list. Response JSON: ">>
                  \o json_dumps(response_data)
             ELSE parse_candidate_piper1(candidates.items[1])

_parse_gemini_response_piper1(response) ==
    IF response.isStr THEN response.str
    ELSE LET response_data == response.body
             api_error == response_data.error
             prompt_feedback == response_data.promptFeedback
             block_reason == prompt_feedback.blockReason
             candidates == response_data.candidates
         IN  IF response_data.json = "invalid"
             THEN <<"Error", " decoding API response JSON: ", "<e>", ". Response text: ", "<text[:500]>", "...">>
             ELSE IF response_data.json = "other"
             THEN <<"Error", " processing API response structure: ", "<e>", ". Response JSON slice: ">>
                  \o json_dumps(response_data)
             ELSE IF api_error.has
             THEN <<"Error", " from API: ", get(api_error.message, "Unknown API error"),
                    " (Code: ", get(api_error.code, "N/A"), ")">>
             ELSE IF prompt_feedback.has /\ block_reason \notin {Absent, "BLOCK_REASON_UNSPECIFIED"}
             THEN <<"Error", ":", " Response blocked due to content policy (default). Reason: ",
                    block_reason, ".">>
             ELSE IF ~truthy_candidates(candidates)
             THEN <<"Error", ":", " No candidates found in response and no blocking reason identified. Response JSON: ">>
                  \o json_dumps(response_data)
             ELSE IF ~truthy_candidate(candidates.items[1])
             THEN <<"Error", ":", " Received empty or invalid candidate list. Response JSON: ">>
                  \o json_dumps(response_data)
             ELSE parse_candidate_piper1(candidates.items[1])

-----------------------------------------------------------------------------
(* _parse_gemini_response, src/gemini.espeak_and_piper.py *)

\* from the content of the first candidate on; only the first part is read
parse_content_piper(candidate) ==
    LET content == candidate.content
        finish_reason == candidate.finishReason
        parts == content.parts
        text == IF parts[1].hasText THEN parts[1].text ELSE <<>>
    IN  IF ~truthy_content(content)
        THEN IF finish_reason \notin {Absent, "STOP"}
             THEN <<"Error", ":", " Candidate finished unexpectedly. Reason: ", finish_reason,
                    ". Safety Ratings: ", get(candidate.safetyRatings, "None")>>
             ELSE <<"Error", ":", " No content found in candidate.">>
        ELSE IF ~content.hasParts \/ parts = <<>>
        THEN IF content.hasText /\ content.text # <<>>
             THEN content.text
             ELSE <<"Error", ":", " No parts found in content.">>
        ELSE IF text = <<>>
        THEN <<"Warning", ":", " Empty text received in the first part.">>
        ELSE text

_parse_gemini_response_piper(response) ==
    IF response.isStr THEN response.str
    ELSE LET response_data == response.body
             candidates == response_data.candidates
             prompt_feedback == response_data.promptFeedback
             api_error == response_data.error
         IN  IF response_data.json = "invalid"
             THEN <<"Error", " decoding API response JSON: ", "<e>", ". Response text: ", "<text[:500]>", "...">>
             ELSE IF response_data.json = "other"
             THEN <<"Error", " processing API response structure: ", "<e>", ". Response JSON: ">>
                  \o json_dumps(response_data)
             ELSE IF ~truthy_candidates(candidates)
             THEN IF prompt_feedback.has
                  THEN <<"Error", ":", " Response blocked. Reason: ", get(prompt_feedback.blockReason, "None"),
                         ". Ratings: ", "<ratings>">>
                  ELSE IF api_error.has
                  THEN <<"Error", " from API: ", get(api_error.message, "Unknown API error")>>
                  ELSE <<"Error", ":", " No candidates found in response. Response JSON: ">>
                       \o json_dumps(response_data)
             ELSE IF ~truthy_candidate(candidates.items[1])
             THEN <<"Error", ":", " Received empty candidate.">>
             ELSE parse_content_piper(candidates.items[1])

\* the parser of the running script
_parse_gemini_response(s, response) ==
    CASE s = "code" -> _parse_gemini_response_code(response)
      [] s = "piper" -> _parse_gemini_response_piper(response)
      [] s = "piper1" -> _parse_gemini_response_piper1(response)

-----------------------------------------------------------------------------
(* History values and _format_gemini_payload *)

\* a Python value held in a history entry: a str, or something else (an int
\* read from a history file); text is what an f-string renders it as
Str(t) == [type |-> "str", text |-> t]

Int(t) == [type |-> "int", text |-> t]

\* isinstance(v, str)
isinstance_str(v) == v.type = "str"

\* one history entry [q, a], a 2-element list
Turn(q, a) == <<q, a>>

\* one element of contents
Entry(role, t) == [role |-> role, parts |-> <<[text |-> t]>>]

\* mutant of conversation_of: the answer is sent with the user role too
RECURSIVE conversation_of_user_only(_)
conversation_of_user_only(h) ==
    IF h = <<>> THEN <<>>
    ELSE LET q == Head(h)[1]
             a == Head(h)[2]
         IN  (IF isinstance_str(q) /\ isinstance_str(a)
              THEN <<Entry("user", q.text), Entry("user", a.text)>>
              ELSE <<>>) \o conversation_of_user_only(Tail(h))

\* the loop over history: a user and a model entry per [str, str] turn, other
\* turns skipped with a warning (the same code in the three scripts)
RECURSIVE conversation_of(_)
conversation_of(h) ==
    IF h = <<>> THEN <<>>
    ELSE LET q == Head(h)[1]
             a == Head(h)[2]
         IN  (IF isinstance_str(q) /\ isinstance_str(a)
              THEN <<Entry("user", q.text), Entry("model", a.text)>>
              ELSE <<>>) \o conversation_of(Tail(h))

\* mutant of history_context_of: the recap leaves the answers out
history_context_of_queries_only(h) ==
    joinsep(<<"\n">>, [i \in 1..Len(h) |-> <<"User: ">> \o h[i][1].text])

\* "\n".join([f"User: {q}\nModel: {a}" for q, a in history])
history_context_of(h) ==
    joinsep(<<"\n">>, [i \in 1..Len(h) |->
        <<"User: ">> \o h[i][1].text \o <<"\n", "Model: ">> \o h[i][2].text])

\* src/.old/code.py and src/.old/gemini.espeak_and_piper1.py (the same text);
\* history None (the /gen command) is the empty list here
_format_gemini_payload_code(query, h, modifier) ==
    LET conversation == conversation_of(h)
        full_query ==
            IF h # <<>>
            THEN modifier \o <<"\n", "---", "\n", "Previous Conversation Context:", "\n">>
                 \o history_context_of(h)
                 \o <<"\n", "---", "\n", "Current Query:", "\n">> \o query
            ELSE IF modifier # <<>>
            THEN modifier \o <<"\n", "---", "\n", "Query:", "\n">> \o query
            ELSE query
    IN  [contents |-> conversation \o <<Entry("user", full_query)>>]

\* src/gemini.espeak_and_piper.py
_format_gemini_payload_piper(query, h, modifier) ==
    LET conversation == conversation_of(h)
        current_query_text ==
            IF h # <<>>
            THEN modifier \o <<"\n", "---", "\n", "Previous Context:", "\n">>
                 \o history_context_of(h)
                 \o <<"\n", "---", "\n", "Current Query:", "\n">> \o query
            ELSE IF modifier # <<>>
            THEN modifier \o <<"\n", "Query: ">> \o query
            ELSE query
    IN  [contents |-> conversation \o <<Entry("user", current_query_text)>>]

_format_gemini_payload(s, query, h, modifier) ==
    CASE s = "piper" -> _format_gemini_payload_piper(query, h, modifier)
      [] s \in {"code", "piper1"} -> _format_gemini_payload_code(query, h, modifier)

-----------------------------------------------------------------------------
(* _call_gemini_api: what requests.post and raise_for_status do is the      *)
(* environment's choice, a Net value                                         *)

\* the body of an HTTP error response, as the except branch reads it:
\* JSON with error.message, JSON without, not JSON, or raising something else
HttpBodies == {"json_message", "json_nomessage", "not_json", "not_json_long", "unreadable"}

\* response_text[:200], the excerpt of a body that is not JSON
EXCERPT == 200

\* http_err.response.text, one token per character for the bodies that are
\* not JSON; the long one is one character longer than the excerpt
HttpText(hb) ==
    CASE hb = "json_message" -> <<"{error: {message: ", "X", "}}">>
      [] hb = "json_nomessage" -> <<"{error: {}}">>
      [] hb = "not_json" -> <<"B", "a", "d">>
      [] hb = "not_json_long" -> [i \in 1..(EXCERPT + 1) |-> IF i = EXCERPT + 1 THEN "z" ELSE "x"]
      [] hb = "unreadable" -> <<"[1]">>

NoNet == [kind |-> "none", status |-> 0, http_body |-> "not_json", body |-> InvalidJson]

NetOk(b) == [kind |-> "ok", status |-> 200, http_body |-> "not_json", body |-> b]

NetTimeout == [kind |-> "Timeout", status |-> 0, http_body |-> "not_json", body |-> InvalidJson]

NetConnectionError ==
    [kind |-> "ConnectionError", status |-> 0, http_body |-> "not_json", body |-> InvalidJson]

NetException == [kind |-> "Exception", status |-> 0, http_body |-> "not_json", body |-> InvalidJson]

NetHTTPError(status, hb) == [kind |-> "HTTPError", status |-> status, http_body |-> hb, body |-> InvalidJson]

\* the value get_gemini_response gives back: a text, or an exception that
\* reaches the main loop
Returned(t) == [raised |-> FALSE, text |-> t]

Raised == [raised |-> TRUE, text |-> <<>>]

\* src/.old/code.py and src/.old/gemini.espeak_and_piper1.py (the same code)
_call_gemini_api_code(net) ==
    CASE net.kind = "ok" -> Returned(<<>>)
      [] net.kind = "Timeout" -> Returned(<<"Error", ":", " API request timed out.">>)
      [] net.kind = "HTTPError" ->
            Returned(
             CASE net.http_body = "json_message" ->
                    <<"Error", ":", " HTTP ", ToString(net.status), " - ", "X">>
               [] net.http_body = "json_nomessage" ->
                    <<"Error", ":", " HTTP ", ToString(net.status), " - ", "Unknown API error">>
               [] net.http_body \in {"not_json", "not_json_long"} ->
                    <<"Error", ":", " HTTP ", ToString(net.status), " - ", "<http_err>", ". Response: ">>
                    \o Prefix(HttpText(net.http_body), EXCERPT) \o <<"...">>
               [] net.http_body = "unreadable" ->
                    <<"Error", ":", " HTTP ", ToString(net.status), " - ", "<http_err>">>)
      [] net.kind = "ConnectionError" -> Returned(<<"Error", " communicating with API: ", "<e>">>)
      [] net.kind = "Exception" ->
            Returned(<<"An unexpected error occurred during API call: ", "<e>">>)

\* src/gemini.espeak_and_piper.py: HTTPError is a RequestException; any other
\* exception is not caught here
_call_gemini_api_piper(net) ==
    CASE net.kind = "ok" -> Returned(<<>>)
      [] net.kind = "Timeout" -> Returned(<<"Error", ":", " API request timed out.">>)
      [] net.kind \in {"HTTPError", "ConnectionError"} ->
            Returned(<<"Error", " communicating with API: ", "<e>">>)
      [] net.kind = "Exception" -> Raised

_call_gemini_api(s, net) ==
    CASE s = "piper" -> _call_gemini_api_piper(net)
      [] s \in {"code", "piper1"} -> _call_gemini_api_code(net)

\* get_gemini_response: format the payload, call the API once, parse
get_gemini_response(s, query, h, modifier, net) ==
    LET payload_data == _format_gemini_payload(s, query, h, modifier)
        api_response == _call_gemini_api(s, net)
    IN  IF api_response.raised THEN Raised
        ELSE IF net.kind = "ok"
        THEN Returned(_parse_gemini_response(s, Response(net.body)))
        ELSE Returned(_parse_gemini_response(s, ErrorString(api_response.text)))

-----------------------------------------------------------------------------
(* Files of the working directory *)

\* main(): MAX_HISTORY = 10 in code.py and piper1
MAX_HISTORY == 10

\* main() of gemini.espeak_and_piper.py: history = history[-10:]
KEEP_piper == 10

MissingFile == [kind |-> "missing", isList |-> FALSE, items |-> <<>>, text |-> <<>>]

\* a file that is not JSON
TextFile(t) == [kind |-> "text", isList |-> FALSE, items |-> <<>>, text |-> t]

\* a JSON file: a list of items, or some other JSON value
JsonFile(isList, items) == [kind |-> "json", isList |-> isList, items |-> items, text |-> <<>>]

\* a JSON array (isList) of values, or a JSON value that is not an array
Item(isList, elems) == [isList |-> isList, elems |-> elems]

\* json.dump(history, f): every entry becomes an array of its two values
json_dump(h) == JsonFile(TRUE, [i \in 1..Len(h) |-> Item(TRUE, h[i])])

\* mutant of loaded_entries: the list comes back in the opposite order
loaded_entries_reversed(file) == [i \in 1..Len(file.items) |-> file.items[Len(file.items) + 1 - i].elems]

\* the list json.load returns, as the Python lists the history then holds
loaded_entries(file) == [i \in 1..Len(file.items) |-> file.items[i].elems]

NumberedTurn(i) == Turn(Str(<<"q", ToString(i)>>), Str(<<"a", ToString(i)>>))

NumberedTurns(n) == [i \in 1..n |-> NumberedTurn(i)]

SaveNames == {"h.json", "h", "d/h.json"}

LoadNames ==
    {"h.json", "missing.json", "bad.json", "dict.json", "item.json", "triple.json",
     "mixed.json", "full.json", "over.json"}

FileNames == SaveNames \cup LoadNames \cup {"a.py"}

\* the working directory when the session starts
InitialFiles ==
    [f \in FileNames |->
        CASE f = "bad.json" -> TextFile(<<"not json">>)
          [] f = "dict.json" -> JsonFile(FALSE, <<>>)
          [] f = "item.json" -> JsonFile(TRUE, <<Item(FALSE, <<>>)>>)
          [] f = "triple.json" ->
                JsonFile(TRUE, <<Item(TRUE, <<Str(<<"q">>), Str(<<"a">>), Str(<<"b">>)>>)>>)
          [] f = "mixed.json" ->
                JsonFile(TRUE, <<Item(TRUE, NumberedTurn(1)), Item(TRUE, <<Str(<<"q">>), Int(<<"42">>)>>)>>)
          [] f = "full.json" -> json_dump(NumberedTurns(MAX_HISTORY))
          [] f = "over.json" -> json_dump(NumberedTurns(MAX_HISTORY + Overfill))
          [] OTHER -> MissingFile]

\* filename.lower().endswith(".json") fails: ".json" is appended
with_json(f) == IF f = "h" THEN "h.json" ELSE f

\* save_path.parent is not '.'
has_parent(f) == f \in {"d/h.json", "d/a.py"}

\* temp_path.suffix.lower().lstrip('.')
file_ext(f) == IF f \in {"a.py", "d/a.py"} THEN "py" ELSE "json"

-----------------------------------------------------------------------------
(* The input line and the command it selects *)

lower_token(t) == IF t = "EXIT" THEN "exit" ELSE t

\* str.lower
lower(q) == [i \in 1..Len(q) |-> lower_token(q[i])]

save_command(s) == IF s = "piper" THEN "/save" ELSE "/save_hist"

load_command(s) == IF s = "piper" THEN "/load" ELSE "/load_hist"

\* the if/elif chain at the top of the loop body
command(s, query) ==
    IF query = <<>> THEN "blank"
    ELSE IF lower(query) = <<"exit">> THEN "exit"
    ELSE IF lower(query) = <<"/clear">> THEN "clear"
    ELSE IF startswith(lower(query), <<save_command(s), " ">>) THEN "save"
    ELSE IF startswith(lower(query), <<load_command(s), " ">>) THEN "load"
    ELSE IF s # "piper" /\ startswith(lower(query), <<"/gen", " ">>) THEN "gen"
    ELSE "chat"

\* lines the user types: the commands the script announces, and a query
Lines(s) ==
    {<<" ">>, <<"EXIT">>, <<"/clear">>, <<"Hello">>}
    \cup {<<save_command(s), " ", f>> : f \in SaveNames}
    \cup {<<load_command(s), " ", f>> : f \in LoadNames}
    \cup (IF s = "piper" THEN {}
          ELSE {<<"/gen", " ", "a.py", " ", "Hello">>, <<"/gen", " ", "a.py">>, <<"/gen", " ", "d/a.py", " ", "Hello">>})

\* answers of the network the main loop meets: every transport failure and
\* one body for every parser outcome
SessionBodies ==
    {InvalidJson,
     JsonObject([has |-> TRUE, message |-> "X", code |-> "7"], NoFeedback, [kind |-> "missing", items |-> <<>>]),
     JsonObject(NoError, [has |-> TRUE, blockReason |-> "SAFETY"], [kind |-> "list", items |-> <<>>]),
     JsonObject(NoError, NoFeedback, [kind |-> "missing", items |-> <<>>]),
     JsonObject(NoError, NoFeedback, [kind |-> "list", items |-> <<Candidate("STOP", Absent, NoContent)>>]),
     JsonObject(NoError, NoFeedback, [kind |-> "list", items |-> <<Candidate("RECITATION", Absent, NoContent)>>]),
     JsonObject(NoError, NoFeedback,
                [kind |-> "list", items |-> <<Candidate("STOP", Absent, ContentParts(<<Part(<<"Hi.">>)>>))>>]),
     JsonObject(NoError, NoFeedback,
                [kind |-> "list", items |-> <<Candidate("STOP", Absent, ContentParts(<<Part(<<"Error", ":", " x">>)>>))>>]),
     JsonObject(NoError, NoFeedback,
                [kind |-> "list", items |-> <<Candidate("MAX_TOKENS", Absent, ContentParts(<<Part(<<"Hi.">>)>>))>>]),
     JsonObject(NoError, NoFeedback,
                [kind |-> "list", items |-> <<Candidate("STOP", Absent, ContentParts(<<Part(<<>>)>>))>>])}

SessionNets ==
    {NetTimeout, NetConnectionError, NetException,
     NetHTTPError(503, "json_message"), NetHTTPError(400, "not_json")}
    \cup {NetOk(b) : b \in SessionBodies}

\* answers met by the /gen command
GenNets ==
    {NetTimeout, NetConnectionError}
    \cup {NetOk(JsonObject(NoError, NoFeedback, [kind |-> "list", items |-> <<Candidate(fr, Absent, c)>>])) :
            fr \in {"STOP", "MAX_TOKENS"}, c \in {ContentParts(<<Part(<<"Hi.">>)>>), ContentParts(<<Part(<<>>)>>)}}

-----------------------------------------------------------------------------
(* main(): one action per branch of the loop body *)

base_modifier(s) ==
    IF s = "piper"
    THEN <<"You are a code-based instantiation of pure, computational logic. Provide concise, factual responses.">>
    ELSE <<"You are a helpful AI assistant. Provide clear and concise responses.">>

\* the call text_to_speech(text, engine), or none in this iteration
NoTts == [called |-> FALSE, text |-> <<>>]

Tts(t) == [called |-> TRUE, text |-> t]

NoPayload == [contents |-> <<>>]

NoLast ==
    [op |-> "none", query |-> <<>>, net |-> NoNet, response |-> Returned(<<>>),
     before |-> <<>>, tts |-> NoTts, payload |-> NoPayload, requests |-> 0]

\* an iteration that makes no API call
Did(op, query) == [NoLast EXCEPT !.op = op, !.query = query, !.before = history]

\* mutant of requests_of: a request that timed out is posted again
requests_of_retry_on_timeout(s, net) == IF net.kind = "Timeout" THEN <<net, net>> ELSE <<net>>

\* the HTTP requests one call of _call_gemini_api posts, each with what the
\* network did to it: the one requests.post of the try block; every except
\* branch returns an error value, none goes back to the post
requests_of(s, net) == <<net>>

\* an iteration that calls get_gemini_response once
Asked(op, query, net, response, tts, payload) ==
    [op |-> op, query |-> query, net |-> net, response |-> response,
     before |-> history, tts |-> tts, payload |-> payload,
     requests |-> Len(requests_of(script, net))]

MainLoop == mode = "session" /\ running /\ ops < MaxOps

\* if not query: continue
Blank ==
    /\ MainLoop
    /\ \E line \in Lines(script) :
        /\ command(script, strip(line)) = "blank"
        /\ last' = Did("blank", strip(line))
    /\ ops' = ops + 1
    /\ UNCHANGED <<script, mode, history, fs, running, arg, result>>

\* exit: break
Exit ==
    /\ MainLoop
    /\ \E line \in Lines(script) :
        /\ command(script, strip(line)) = "exit"
        /\ last' = Did("exit", strip(line))
    /\ running' = FALSE
    /\ ops' = ops + 1
    /\ UNCHANGED <<script, mode, history, fs, arg, result>>

\* /clear
Clear ==
    /\ MainLoop
    /\ \E line \in Lines(script) :
        /\ command(script, strip(line)) = "clear"
        /\ last' = Did("clear", strip(line))
    /\ history' = <<>>
    /\ ops' = ops + 1
    /\ UNCHANGED <<script, mode, fs, running, arg, result>>

\* the file /save_hist writes: code.py and piper1 append ".json" and refuse a
\* name with a directory; piper writes the name as typed
save_target(s, filename) == IF s = "piper" THEN filename ELSE with_json(filename)

save_refused(s, filename) == s # "piper" /\ has_parent(with_json(filename))

\* /save_hist <file> (/save <file> in piper); io_ok: open and json.dump succeed
Save ==
    /\ MainLoop
    /\ \E line \in Lines(script), io_ok \in BOOLEAN :
        LET query == strip(line)
            filename == query[3]
        IN  /\ command(script, query) = "save"
            /\ last' = Did("save", query)
            /\ fs' = IF ~save_refused(script, filename) /\ io_ok
                     THEN [fs EXCEPT ![save_target(script, filename)] = json_dump(history)]
                     ELSE fs
    /\ ops' = ops + 1
    /\ UNCHANGED <<script, mode, history, running, arg, result>>

\* the validation of the loaded value in code.py and piper1
valid_history_code(file) ==
    /\ file.isList
    /\ \A i \in 1..Len(file.items) :
        /\ file.items[i].isList
        /\ Len(file.items[i].elems) = 2
        /\ isinstance_str(file.items[i].elems[1])
        /\ isinstance_str(file.items[i].elems[2])

\* the validation of the loaded value in piper
valid_history_piper(file) ==
    /\ file.isList
    /\ \A i \in 1..Len(file.items) : file.items[i].isList /\ Len(file.items[i].elems) = 2

\* the history after /load_hist <file> in code.py and piper1
load_history_code(h, file) ==
    IF file.kind = "json" /\ valid_history_code(file)
    THEN LastN(loaded_entries(file), MAX_HISTORY)
    ELSE h

\* the history after /load <file> in piper
load_history_piper(h, file) ==
    IF file.kind = "json" /\ valid_history_piper(file) THEN loaded_entries(file) ELSE h

load_history(s, h, file) ==
    IF s = "piper" THEN load_history_piper(h, file) ELSE load_history_code(h, file)

\* /load_hist <file> (/load <file> in piper)
Load ==
    /\ MainLoop
    /\ \E line \in Lines(script) :
        LET query == strip(line)
            filename == query[3]
        IN  /\ command(script, query) = "load"
            /\ last' = Did("load", query)
            /\ history' = load_history(script, history, fs[filename])
    /\ ops' = ops + 1
    /\ UNCHANGED <<script, mode, fs, running, arg, result>>

\* mutant of append_code: the trim keeps one turn too few
append_code_short(h, query, response) ==
    LastN(Append(h, Turn(Str(query), Str(response))), MAX_HISTORY - 1)

\* history.append([query, response]); history = history[-MAX_HISTORY:]
append_code(h, query, response) == LastN(Append(h, Turn(Str(query), Str(response))), MAX_HISTORY)

\* history.append([query, response]); history = history[-10:]
append_piper(h, query, response) == LastN(Append(h, Turn(Str(query), Str(response))), KEEP_piper)

Error_ == <<"Error", ":">>

Warning_ == <<"Warning", ":">>

\* "Regular Chat Interaction" of code.py: [history, tts] after the response
chat_code(h, query, response) ==
    IF ~startswith(response, Error_) /\ ~startswith(response, Warning_)
    THEN IF response # <<>>
         THEN [history |-> append_code(h, query, response), tts |-> Tts(response)]
         ELSE [history |-> h, tts |-> NoTts]
    ELSE [history |-> h, tts |-> NoTts]

\* the same block of piper1: no test for an empty response
chat_piper1(h, query, response) ==
    IF ~startswith(response, Error_) /\ ~startswith(response, Warning_)
    THEN [history |-> append_code(h, query, response), tts |-> Tts(response)]
    ELSE [history |-> h, tts |-> NoTts]

\* "Store interaction in history" and "Speak Response" of piper
chat_piper(h, query, response) ==
    [history |-> IF ~startswith(response, Error_) THEN append_piper(h, query, response) ELSE h,
     tts |-> IF ~startswith(response, Error_) /\ ~startswith(response, Warning_)
             THEN Tts(response) ELSE NoTts]

chat(s, h, query, response) ==
    CASE s = "code" -> chat_code(h, query, response)
      [] s = "piper1" -> chat_piper1(h, query, response)
      [] s = "piper" -> chat_piper(h, query, response)

\* any other input: one exchange with the API; an exception that leaves
\* get_gemini_response is reported by the loop's except clause
Chat ==
    /\ MainLoop
    /\ \E line \in Lines(script), net \in SessionNets :
        LET query == strip(line)
            response == get_gemini_response(script, query, history, base_modifier(script), net)
            payload == _format_gemini_payload(script, query, history, base_modifier(script))
            after == chat(script, history, query, response.text)
        IN  /\ command(script, query) = "chat"
            /\ IF response.raised
               THEN /\ history' = history
                    /\ last' = Asked("chat", query, net, response, NoTts, payload)
               ELSE /\ history' = after.history
                    /\ last' = Asked("chat", query, net, response, after.tts, payload)
    /\ ops' = ops + 1
    /\ UNCHANGED <<script, mode, fs, running, arg, result>>

-----------------------------------------------------------------------------
(* The /gen command of code.py and piper1 *)

generation_modifier(ext) ==
    CASE ext = "md" -> <<"Format the entire response STRICTLY as Markdown text...">>
      [] ext = "py" -> <<"Generate Python code... Output ONLY the raw Python code...">>
      [] ext = "json" -> <<"Generate valid JSON data... Output ONLY the raw JSON data...">>
      [] ext \in {"txt", ""} -> <<"Generate plain text content...">>
      [] OTHER -> <<"Generate content suitable for a file with the extension '", ext, "'... Output ONLY the raw content...">>

\* index of the first "---\n" in s, 0 when there is none
RECURSIVE find_marker(_, _)
find_marker(s, i) ==
    IF i + 1 > Len(s) THEN 0
    ELSE IF s[i] = "---" /\ s[i + 1] = "\n" THEN i
    ELSE find_marker(s, i + 1)

\* response.split('---\n', 1)[-1]
after_marker(s) ==
    IF find_marker(s, 1) = 0 THEN s ELSE SubSeq(s, find_marker(s, 1) + 2, Len(s))

\* response.split('---\n', 1)[0]
before_marker(s) ==
    IF find_marker(s, 1) = 0 THEN s ELSE SubSeq(s, 1, find_marker(s, 1) - 1)

NoWrite == [write |-> FALSE, content |-> <<>>]

Write(t) == [write |-> TRUE, content |-> t]

\* code.py: the history entry and the file written, from the response;
\* wrote: save_text_to_file returned True
gen_code(filename, response, wrote) ==
    IF startswith(response, Error_) \/ startswith(response, <<"Warning", ":", " No content">>)
    THEN [entry |-> <<"Attempted file generation for '", filename, "'. Failed: ">>
                    \o Prefix(response, 100) \o <<"...">>,
          file |-> NoWrite]
    ELSE IF startswith(response, Warning_)
    THEN [entry |-> IF wrote
                    THEN <<"Generated file '", filename, "' with warning: ">> \o before_marker(response)
                    ELSE <<"Attempted file generation for '", filename, "'. API Warning, but failed to save file.">>,
          file |-> IF wrote THEN Write(after_marker(response)) ELSE NoWrite]
    ELSE IF response # <<>>
    THEN [entry |-> IF wrote
                    THEN <<"Successfully generated and saved file: '", filename, "'">>
                    ELSE <<"Attempted file generation for '", filename, "'. API OK, but failed to save file.">>,
          file |-> IF wrote THEN Write(response) ELSE NoWrite]
    ELSE [entry |-> <<"File generation for '", filename, "' resulted in empty content. File not saved.">>,
          file |-> NoWrite]

\* piper1: the warning summary is the whole response (the split is on a
\* backslash and an n), and an empty response is written like any other
gen_piper1(filename, response, wrote) ==
    IF startswith(response, Error_) \/ startswith(response, <<"Warning", ":", " No content">>)
    THEN [entry |-> <<"Attempted file generation for '", filename, "'. Failed: ">>
                    \o Prefix(response, 100) \o <<"...">>,
          file |-> NoWrite]
    ELSE IF startswith(response, Warning_)
    THEN [entry |-> IF wrote
                    THEN <<"Generated file '", filename, "' with warning: ">> \o response
                    ELSE <<"Attempted file generation for '", filename, "'. API Warning, but failed to save file.">>,
          file |-> IF wrote THEN Write(after_marker(response)) ELSE NoWrite]
    ELSE [entry |-> IF wrote
                    THEN <<"Successfully generated and saved file: '", filename, "'">>
                    ELSE <<"Attempted file generation for '", filename, "'. API OK, but failed to save file.">>,
          file |-> IF wrote THEN Write(response) ELSE NoWrite]

gen(s, filename, response, wrote) ==
    IF s = "piper1" THEN gen_piper1(filename, response, wrote) ELSE gen_code(filename, response, wrote)

\* /gen <filename.ext> <prompt>
Gen ==
    /\ MainLoop
    /\ \E line \in Lines(script), net \in GenNets, wrote \in BOOLEAN :
        LET query == strip(line)
            filename == query[3]
            actual_prompt == strip(SubSeq(query, 5, Len(query)))
            final_modifier == generation_modifier(file_ext(filename))
            response == get_gemini_response(script, actual_prompt, <<>>, final_modifier, net)
            payload == _format_gemini_payload(script, actual_prompt, <<>>, final_modifier)
            done == gen(script, filename, response.text, wrote)
        IN  /\ command(script, query) = "gen"
            /\ IF Len(query) < 5 \/ has_parent(filename)
               THEN /\ last' = Did("gen", query)
                    /\ UNCHANGED <<history, fs>>
               ELSE /\ last' = Asked("gen", query, net, response, NoTts, payload)
                    /\ history' = append_code(history, query, done.entry)
                    /\ fs' = IF done.file.write
                             THEN [fs EXCEPT ![filename] = TextFile(done.file.content)]
                             ELSE fs
    /\ ops' = ops + 1
    /\ UNCHANGED <<script, mode, running, arg, result>>

-----------------------------------------------------------------------------
(* The session: main() of one of the scripts *)

Pending == [done |-> FALSE, value |-> <<>>]

Done(v) == [done |-> TRUE, value |-> v]

Init ==
    /\ script \in Scripts
    /\ mode = "session"
    /\ history = <<>>
    /\ fs = InitialFiles
    /\ last = NoLast
    /\ ops = 0
    /\ running = TRUE
    /\ arg = <<>>
    /\ result = Pending

Next == Blank \/ Exit \/ Clear \/ Save \/ Load \/ Gen \/ Chat

Spec == Init /\ [][Next]_vars

-----------------------------------------------------------------------------
(* _parse_gemini_response applied to one value *)

\* the error strings _call_gemini_api hands over
TransportErrors(s) ==
    {ErrorString(_call_gemini_api(s, net).text) :
        net \in {n \in {NetTimeout, NetConnectionError, NetException, NetHTTPError(503, "json_message"),
                        NetHTTPError(400, "not_json"), NetHTTPError(404, "json_nomessage"),
                        NetHTTPError(500, "unreadable")} : ~_call_gemini_api(s, n).raised}}

InitParse ==
    /\ script \in Scripts
    /\ mode = "parse"
    /\ history = <<>>
    /\ fs = InitialFiles
    /\ last = NoLast
    /\ ops = 0
    /\ running = FALSE
    /\ arg \in {Response(b) : b \in Bodies} \cup TransportErrors(script)
    /\ result = Pending

Parse ==
    /\ mode = "parse"
    /\ ~result.done
    /\ result' = Done(_parse_gemini_response(script, arg))
    /\ UNCHANGED <<script, mode, history, fs, last, ops, running, arg>>

NextParse == Parse

SpecParse == InitParse /\ [][NextParse]_vars

-----------------------------------------------------------------------------
(* _format_gemini_payload applied to one (query, history, modifier) *)

BuildTurns ==
    {Turn(Str(<<"q1">>), Str(<<"a1">>)), Turn(Str(<<"q2">>), Str(<<"a2">>)), Turn(Str(<<"q3">>), Int(<<"42">>))}

RECURSIVE SeqsUpTo(_, _)
SeqsUpTo(S, n) ==
    IF n = 0 THEN {<<>>}
    ELSE SeqsUpTo(S, n - 1) \cup {Append(h, t) : h \in {x \in SeqsUpTo(S, n - 1) : Len(x) = n - 1}, t \in S}

BuildHistories == SeqsUpTo(BuildTurns, MaxBuildLen) \cup {NumberedTurns(MAX_HISTORY)}

BuildQueries == {<<"Hello">>, <<"Why", "?">>}

BuildModifiers == {<<>>, <<"Be terse.">>}

InitBuild ==
    /\ script \in Scripts
    /\ mode = "build"
    /\ history = <<>>
    /\ fs = InitialFiles
    /\ last = NoLast
    /\ ops = 0
    /\ running = FALSE
    /\ arg \in [query : BuildQueries, history : BuildHistories, modifier : BuildModifiers]
    /\ result = Pending

Build ==
    /\ mode = "build"
    /\ ~result.done
    /\ result' = Done(_format_gemini_payload(script, arg.query, arg.history, arg.modifier))
    /\ UNCHANGED <<script, mode, history, fs, last, ops, running, arg>>

NextBuild == Build

SpecBuild == InitBuild /\ [][NextBuild]_vars

-----------------------------------------------------------------------------
(* _parse_gemini_response applied to a normal answer that holds one text *)

\* the texts of the answer: every sequence of these tokens
FenceTokens == {"<fence>", "\n", " ", "hello"}

FenceTexts == SeqsUpTo(FenceTokens, MaxFenceLen)

\* a 200 response with one candidate, finishReason STOP and the one text t
TextBody(t) ==
    JsonObject(NoError, NoFeedback,
               [kind |-> "list", items |-> <<Candidate("STOP", Absent, ContentParts(<<Part(t)>>))>>])

InitFence ==
    /\ script \in Scripts
    /\ mode = "parse"
    /\ history = <<>>
    /\ fs = InitialFiles
    /\ last = NoLast
    /\ ops = 0
    /\ running = FALSE
    /\ arg \in {Response(TextBody(t)) : t \in FenceTexts}
    /\ result = Pending

NextFence == Parse

SpecFence == InitFence /\ [][NextFence]_vars

-----------------------------------------------------------------------------
(* Outcomes, as the specification names them *)

\* the candidate holds no content, no parts, or an empty parts list
NoParts(c) ==
    ~(c.kind = "dict" /\ c.content.kind = "dict" /\ c.content.hasParts /\ c.content.parts # <<>>)

\* a body whose outcome is Failed before any text is read: not JSON, a
\* top-level error, no candidates, or a first candidate without content that
\* did not finish with STOP
FailedBody(b) ==
    \/ b.json # "object"
    \/ b.error.has
    \/ ~truthy_candidates(b.candidates)
    \/ /\ b.candidates.items[1].content.kind # "dict"
       /\ b.candidates.items[1].finishReason # "STOP"

\* an exchange whose outcome is Failed: a transport failure or a failed body
FailedExchange(net) ==
    \/ net.kind \in {"Timeout", "ConnectionError", "HTTPError", "Exception"}
    \/ net.kind = "ok" /\ FailedBody(net.body)

\* the last iteration was a chat turn
ChatTurn == mode = "session" /\ last.op = "chat"

-----------------------------------------------------------------------------
(* Claims *)

\* C1: a chat exchange whose outcome is Failed (timeout, connection failure,
\* HTTP error, unexpected transport failure, JSON decode failure, top-level API
\* error, blocked prompt, no candidates, empty content, unexpected finish)
\* leaves the history as it was before the turn.
C1_FailedExchangeKeepsHistory ==
    (ChatTurn /\ FailedExchange(last.net)) => history = last.before

\* C2: text_to_speech is never called in a chat turn whose exchange outcome is
\* Failed, whatever the failure kind.
C2_NoSpeechOnFailedExchange ==
    (ChatTurn /\ FailedExchange(last.net)) => ~last.tts.called

\* C3: in every reachable state of a session the history holds at most cap
\* (10) turns, also after a load of a file that holds more.
C3_HistoryWithinCap ==
    mode = "session" => Len(history) <= MAX_HISTORY

\* the exchange is a 200 response with finishReason STOP and the one text "Hi."
HiExchange(net) ==
    /\ net.kind = "ok"
    /\ net.body = JsonObject(NoError, NoFeedback,
                      [kind |-> "list", items |-> <<Candidate("STOP", Absent, ContentParts(<<Part(<<"Hi.">>)>>))>>])

WellFormed(h) ==
    \A i \in 1..Len(h) : isinstance_str(h[i][1]) /\ isinstance_str(h[i][2])

\* C5: for a well-formed history H of at most cap turns and a query q,
\* _format_gemini_payload returns 2*|H| + 1 entries: for the i-th turn a user
\* entry with its query then a model entry with its response, and one last
\* user entry that contains q, and the modifier when it is not empty.
C5_PayloadShape ==
    (mode = "build" /\ result.done /\ WellFormed(arg.history) /\ Len(arg.history) <= MAX_HISTORY)
    => LET contents == result.value.contents
           n == Len(arg.history)
       IN  /\ Len(contents) = 2 * n + 1
           /\ \A i \in 1..n :
                /\ contents[2 * i - 1] = Entry("user", arg.history[i][1].text)
                /\ contents[2 * i] = Entry("model", arg.history[i][2].text)
           /\ contents[2 * n + 1].role = "user"
           /\ Len(contents[2 * n + 1].parts) = 1
           /\ Contains(contents[2 * n + 1].parts[1].text, arg.query)
           /\ Contains(contents[2 * n + 1].parts[1].text, arg.modifier)

\* C5 witness: the payload of a history of cap well-formed turns
C5_Witness ==
    /\ mode = "build"
    /\ result.done
    /\ Len(arg.history) = MAX_HISTORY
    /\ WellFormed(arg.history)
    /\ arg.modifier # <<>>
    /\ Len(result.value.contents) = 2 * MAX_HISTORY + 1


\* the separator the running script puts between the modifier and the query
Separator(s) ==
    IF s = "piper" THEN <<"\n", "Query: ">> ELSE <<"\n", "---", "\n", "Query:", "\n">>

\* the text of the last entry of the built payload
FinalText == result.value.contents[Len(result.value.contents)].parts[1].text

\* the recap line of the i-th turn of h
Recap(h, i) == <<"User: ">> \o h[i][1].text \o <<"\n", "Model: ">> \o h[i][2].text

\* C6 (as stated): the text of the final user entry is exactly the modifier, a
\* separator and the raw query when the modifier is not empty, and exactly the
\* raw query when it is empty, whatever the history: no restatement of the
\* prior turns.
C6_FinalEntryIsModifierAndQuery ==
    (mode = "build" /\ result.done)
    => FinalText = (IF arg.modifier # <<>>
                    THEN arg.modifier \o Separator(script) \o arg.query
                    ELSE arg.query)

\* C6 (amended): with an empty history the final text is exactly the modifier,
\* the separator and the raw query (the raw query alone for an empty
\* modifier); with a non-empty history it starts with the modifier, ends with
\* the raw query, and restates every turn of the history between them, as a
\* "User: q / Model: a" line pair, in the order of the history.
C6_FinalEntryText ==
    (mode = "build" /\ result.done)
    => IF arg.history = <<>>
       THEN FinalText = (IF arg.modifier # <<>>
                         THEN arg.modifier \o Separator(script) \o arg.query
                         ELSE arg.query)
       ELSE /\ startswith(FinalText, arg.modifier \o <<"\n", "---", "\n">>)
            /\ LastN(FinalText, Len(arg.query) + 2) = <<"Current Query:", "\n">> \o arg.query
            /\ \A i \in 1..Len(arg.history) : Contains(FinalText, Recap(arg.history, i))
            /\ \A i \in 1..(Len(arg.history) - 1) :
                    Contains(FinalText, Recap(arg.history, i) \o <<"\n">> \o Recap(arg.history, i + 1))

\* C6 witness: a payload built over a history of two turns, whose final text
\* restates the first turn
C6_Witness ==
    /\ mode = "build"
    /\ result.done
    /\ Len(arg.history) = 2
    /\ arg.modifier # <<>>
    /\ Contains(FinalText, Recap(arg.history, 1))
    /\ FinalText # arg.modifier \o Separator(script) \o arg.query

-----------------------------------------------------------------------------
(* Parser outcomes, read off the returned text *)

\* _parse_gemini_response has returned for a body that decodes to an object
ParsedBody == mode = "parse" /\ result.done /\ ~arg.isStr /\ arg.body.json = "object"

\* promptFeedback carries a block reason other than the unspecified one
EffectiveBlock(f) == f.has /\ f.blockReason \notin {Absent, "BLOCK_REASON_UNSPECIFIED"}

\* the first candidate of a body with candidates
FirstCandidate == arg.body.candidates.items[1]

\* Failed(ApiError)
ApiErrorOutcome(v) == startswith(v, <<"Error", " from API: ">>)

\* Failed(Blocked)
BlockedOutcome(v) ==
    \/ startswith(v, <<"Error", ":", " Response blocked due to content policy (default). Reason: ">>)
    \/ startswith(v, <<"Error", ":", " Response blocked. Reason: ">>)

\* Failed(NoCandidates)
NoCandidatesOutcome(v) ==
    \/ startswith(v, <<"Error", ":", " No candidates found in response.">>)
    \/ startswith(v, <<"Error", ":", " No candidates found in response. Response JSON: ">>)
    \/ startswith(v, <<"Error", ":", " No candidates found in response and no blocking reason identified. Response JSON: ">>)

\* Failed(UnexpectedFinish)
UnexpectedFinishOutcome(v) ==
    startswith(v, <<"Error", ":", " Candidate finished unexpectedly. Reason: ">>)

\* Failed(EmptyContent)
EmptyContentOutcome(v) ==
    \/ startswith(v, <<"Error", ":", " Failed to extract text content from candidate. Finish Reason: ">>)
    \/ startswith(v, <<"Error", ":", " Received empty or invalid candidate list. Response JSON: ">>)
    \/ v = <<"Error", ":", " Received empty candidate.">>
    \/ v = <<"Error", ":", " No content found in candidate.">>
    \/ v = <<"Error", ":", " No parts found in content.">>

\* a Failed outcome of the first candidate that names why it stopped
FinishFailureOutcome(v, reason) ==
    /\ \/ UnexpectedFinishOutcome(v)
       \/ startswith(v, <<"Error", ":", " Candidate finished due to maximum token limit (">>)
       \/ startswith(v, <<"Error", ":", " Candidate content blocked due to safety (default policy - ">>)
    /\ v[4] = reason

\* OkWithWarning("", NoContentOnStop)
NoContentOnStopOutcome(v) ==
    v = <<"Warning", ":", " Received response with no content (finish reason: STOP).">>

\* an OkWithWarning outcome
WarningOutcome(v) == startswith(v, <<"Warning", ":">>)

\* C7: on a decoded body with a top-level error object {message: X, code: C}
\* the parser returns Failed(ApiError) carrying X and C, whatever candidates and
\* promptFeedback the body also holds.
C7_ApiErrorTakesPrecedence ==
    (ParsedBody /\ arg.body.error.has /\ arg.body.error.message # Absent /\ arg.body.error.code # Absent)
    => /\ ApiErrorOutcome(result.value)
       /\ Contains(result.value, <<arg.body.error.message>>)
       /\ Contains(result.value, <<arg.body.error.code>>)

\* the body of the parsed response, with its promptFeedback taken out
WithoutFeedback == Response([arg.body EXCEPT !.promptFeedback = NoFeedback])

\* C8 (as stated): on a body without a top-level error whose candidates are
\* missing, null or empty the parser returns Failed(Blocked, reason) when
\* promptFeedback.blockReason is present and not the unspecified value, and
\* Failed(NoCandidates) otherwise; promptFeedback is read in this case only, so
\* a body with candidates is parsed as if it had no promptFeedback.
C8_BlockedOnlyWithoutCandidates ==
    (ParsedBody /\ ~arg.body.error.has)
    => IF ~truthy_candidates(arg.body.candidates)
       THEN IF EffectiveBlock(arg.body.promptFeedback)
            THEN BlockedOutcome(result.value) /\ result.value[4] = arg.body.promptFeedback.blockReason
            ELSE NoCandidatesOutcome(result.value)
       ELSE result.value = _parse_gemini_response(script, WithoutFeedback)

\* C8 (amended): on a body without a top-level error whose candidates are
\* missing, null or empty the parser returns a Failed outcome, Blocked or
\* NoCandidates. gemini.espeak_and_piper1.py returns Blocked with the reason
\* when blockReason is present and not unspecified and NoCandidates otherwise,
\* and it returns the same Blocked outcome when the body has candidates, since
\* it reads promptFeedback before candidates. code.py always returns
\* NoCandidates, with the block reason in the message when promptFeedback is
\* present. gemini.espeak_and_piper.py returns Blocked whenever promptFeedback
\* is present, with whatever reason it holds, and NoCandidates otherwise.
\* code.py and gemini.espeak_and_piper.py parse a body with candidates as if it
\* had no promptFeedback.
C8_NoCandidatesOutcome ==
    (ParsedBody /\ ~arg.body.error.has)
    => LET f == arg.body.promptFeedback
           v == result.value
       IN  IF ~truthy_candidates(arg.body.candidates)
           THEN /\ BlockedOutcome(v) \/ NoCandidatesOutcome(v)
                /\ script = "piper1" =>
                      IF EffectiveBlock(f)
                      THEN BlockedOutcome(v) /\ v[4] = f.blockReason
                      ELSE NoCandidatesOutcome(v)
                /\ script = "code" =>
                      /\ NoCandidatesOutcome(v)
                      /\ f.has => Contains(v, <<" Prompt Feedback: ", "{blockReason: ", f.blockReason>>)
                /\ script = "piper" =>
                      IF f.has
                      THEN BlockedOutcome(v) /\ v[4] = get(f.blockReason, "None")
                      ELSE NoCandidatesOutcome(v)
           ELSE /\ (script = "piper1" /\ EffectiveBlock(f)) =>
                      BlockedOutcome(v) /\ v[4] = f.blockReason
                /\ (script = "piper1" /\ ~EffectiveBlock(f)) =>
                      v = _parse_gemini_response(script, WithoutFeedback)
                /\ script \in {"code", "piper"} =>
                      v = _parse_gemini_response(script, WithoutFeedback)

\* C8 witness: candidates: [] with blockReason SAFETY, parsed as Blocked
C8_Witness ==
    /\ ParsedBody
    /\ script = "piper1"
    /\ arg.body = JsonObject(NoError, [has |-> TRUE, blockReason |-> "SAFETY"], [kind |-> "list", items |-> <<>>])
    /\ BlockedOutcome(result.value)
    /\ result.value[4] = "SAFETY"

\* the body gets as far as the first candidate: no top-level error, candidates
\* present, and no block reason where the parser reads it first
ReachesCandidate ==
    /\ ParsedBody
    /\ ~arg.body.error.has
    /\ truthy_candidates(arg.body.candidates)
    /\ script = "piper1" => ~EffectiveBlock(arg.body.promptFeedback)

\* content.text, the field the parsers fall back to when there are no parts
DirectText(c) ==
    IF c.kind = "dict" /\ c.content.kind = "dict" /\ c.content.hasText THEN c.content.text ELSE <<>>

\* C9 (as stated): when the first candidate has no content, no parts or an
\* empty parts list, the parser returns a Failed outcome that names the finish
\* reason when finishReason is present and neither STOP nor unspecified, and
\* Failed(EmptyContent) otherwise, STOP included; never a success or a warning.
C9_NoPartsIsFailure ==
    (ReachesCandidate /\ NoParts(FirstCandidate))
    => IF FirstCandidate.finishReason \notin {Absent, "STOP", "FINISH_REASON_UNSPECIFIED"}
       THEN FinishFailureOutcome(result.value, FirstCandidate.finishReason)
       ELSE EmptyContentOutcome(result.value)

\* C9 (amended): when the first candidate has no content, no parts or an
\* empty parts list, and content has no non-empty direct text field, code.py
\* and gemini.espeak_and_piper1.py return a Failed outcome naming the reason
\* when finishReason is present and neither STOP nor unspecified,
\* Failed(EmptyContent) when it is absent or unspecified, and the warning
\* NoContentOnStop (not a Failed outcome) when it is STOP;
\* gemini.espeak_and_piper.py returns Failed(EmptyContent) for a null
\* candidate and for a content without parts whatever the finish reason, and
\* for a missing content Failed(UnexpectedFinish, reason) when finishReason is
\* present and not STOP (the unspecified value included) and
\* Failed(EmptyContent) otherwise. When content has a non-empty direct text
\* field, that text is the extracted text and the outcome is the one of a
\* candidate with text: a success or a warning carrying it.
C9_NoPartsOutcome ==
    (ReachesCandidate /\ NoParts(FirstCandidate))
    => LET c == FirstCandidate
           fr == c.finishReason
           v == result.value
       IN  /\ script \in {"code", "piper1"} =>
                IF strip(DirectText(c)) # <<>>
                THEN /\ v = strip(DirectText(c)) \/ WarningOutcome(v)
                     /\ LastN(v, Len(strip(DirectText(c)))) = strip(DirectText(c))
                ELSE IF fr = "STOP" THEN NoContentOnStopOutcome(v)
                ELSE IF fr \in {Absent, "FINISH_REASON_UNSPECIFIED"} THEN EmptyContentOutcome(v)
                ELSE FinishFailureOutcome(v, fr)
           /\ script = "piper" =>
                IF c.kind # "dict" THEN EmptyContentOutcome(v)
                ELSE IF c.content.kind # "dict"
                THEN IF fr \notin {Absent, "STOP"}
                     THEN UnexpectedFinishOutcome(v) /\ v[4] = fr
                     ELSE EmptyContentOutcome(v)
                ELSE IF DirectText(c) # <<>> THEN v = DirectText(c)
                ELSE EmptyContentOutcome(v)

\* C9 witness: a first candidate with finishReason STOP and no content, parsed
\* by code.py as the warning NoContentOnStop
C9_Witness ==
    /\ ReachesCandidate
    /\ script = "code"
    /\ FirstCandidate = Candidate("STOP", Absent, NoContent)
    /\ NoContentOnStopOutcome(result.value)

\* the text the running script extracts from the parts of a candidate: all
\* parts joined and trimmed, or (gemini.espeak_and_piper.py) the first part as
\* it is
ExtractedText(s, c) ==
    LET texts == [i \in 1..Len(c.content.parts) |->
                    IF c.content.parts[i].hasText THEN c.content.parts[i].text ELSE <<>>]
    IN  IF s = "piper" THEN texts[1] ELSE strip(join(texts))

\* the text is wrapped in a leading and a trailing fence
Fenced(t) == t # <<>> /\ Head(t) = Fence /\ t[Len(t)] = Fence

\* what C10 states of a returned value v for the extracted text t
StopOutcome(s, t, v) ==
    IF t = <<>>
    THEN WarningOutcome(v) /\ (s # "piper" => NoContentOnStopOutcome(v))
    ELSE IF Fenced(t) /\ s # "piper"
    THEN v # <<>> /\ Contains(t, v) /\ ~Contains(v, <<Fence>>)
    ELSE v = t

-----------------------------------------------------------------------------
(* Finish reasons other than STOP *)

\* the text the running script extracts from a candidate: the text of its
\* parts, else the direct text field of its content
CandidateText(s, c) ==
    IF ~NoParts(c) THEN ExtractedText(s, c)
    ELSE IF s = "piper" THEN DirectText(c) ELSE strip(DirectText(c))

\* the response, with the finish reason of its first candidate set to fr
WithFinishReason(fr) ==
    Response([arg.body EXCEPT !.candidates.items = <<[FirstCandidate EXCEPT !.finishReason = fr]>>])

\* OkWithWarning(text, Truncated)
TruncatedWarningOutcome(v, t) ==
    v = <<"Warning", ":", " MAX_TOKENS limit reached. Output may be incomplete.", "\n", "---", "\n">> \o t

\* Failed(Truncated)
TruncatedFailureOutcome(v) ==
    startswith(v, <<"Error", ":", " Candidate finished due to maximum token limit (", "MAX_TOKENS">>)

\* what C11 states of a returned value v for the extracted text t
MaxTokensOutcome(t, v) ==
    IF t # <<>> THEN TruncatedWarningOutcome(v, t) ELSE TruncatedFailureOutcome(v)

SafetyWarningOutcome(v, t) ==
    v = <<"Warning", ":", " SAFETY block triggered. Output may be filtered or incomplete.", "\n", "---", "\n">> \o t

\* Failed(SafetyBlocked)
SafetyBlockedOutcome(v) ==
    startswith(v, <<"Error", ":", " Candidate content blocked due to safety (default policy - ", "SAFETY">>)

\* OkWithWarning(text, OtherFinishReason(reason))
OtherFinishWarningOutcome(v, reason, t) ==
    v = <<"Warning", ":", " Unexpected finish reason (", reason, "). Output may be incomplete.", "\n", "---", "\n">> \o t

\* the first candidate finished with SAFETY
SafetyCandidate == FirstCandidate.kind = "dict" /\ FirstCandidate.finishReason = "SAFETY"

\* C12 (as stated): on a body without a top-level error whose first candidate
\* has finishReason SAFETY the parser returns OkWithWarning(text,
\* SafetyFiltered) when the extracted text is not empty and
\* Failed(SafetyBlocked) carrying the safety ratings when it is empty, outcomes
\* of their own kind and not the ones of the other finish reasons.
C12_SafetyIsItsOwnCase ==
    (ParsedBody /\ ~arg.body.error.has /\ truthy_candidates(arg.body.candidates) /\ SafetyCandidate)
    => IF CandidateText(script, FirstCandidate) # <<>>
       THEN SafetyWarningOutcome(result.value, CandidateText(script, FirstCandidate))
       ELSE /\ SafetyBlockedOutcome(result.value)
            /\ FirstCandidate.safetyRatings # Absent
                  => Contains(result.value, <<FirstCandidate.safetyRatings>>)

\* C12 (amended): for a body that gets as far as the first candidate, only
\* gemini.espeak_and_piper1.py has a SAFETY case of its own:
\* OkWithWarning(text, SafetyFiltered) for a non-empty text and
\* Failed(SafetyBlocked) with the safety ratings for an empty one. code.py
\* handles SAFETY as any other finish reason: the warning
\* OtherFinishReason(SAFETY) with the text, or Failed(UnexpectedFinish, SAFETY)
\* with the safety ratings when the candidate has some.
\* gemini.espeak_and_piper.py returns Failed(UnexpectedFinish, SAFETY) with the
\* ratings for a candidate without content and otherwise what it returns for
\* STOP.
C12_SafetyOutcome ==
    (ReachesCandidate /\ SafetyCandidate)
    => LET c == FirstCandidate
           t == CandidateText(script, c)
           v == result.value
           carries_ratings == c.safetyRatings # Absent => Contains(v, <<c.safetyRatings>>)
       IN  /\ script = "piper1" =>
                IF t # <<>> THEN SafetyWarningOutcome(v, t)
                ELSE SafetyBlockedOutcome(v) /\ carries_ratings
           /\ script = "code" =>
                IF t # <<>> THEN OtherFinishWarningOutcome(v, "SAFETY", t)
                ELSE UnexpectedFinishOutcome(v) /\ v[4] = "SAFETY" /\ carries_ratings
           /\ script = "piper" =>
                IF c.content.kind = "dict"
                THEN v = _parse_gemini_response(script, WithFinishReason("STOP"))
                ELSE UnexpectedFinishOutcome(v) /\ v[4] = "SAFETY" /\ carries_ratings

\* C12 witness: SAFETY with the text "Hi.", parsed by
\* gemini.espeak_and_piper1.py as the safety warning that carries "Hi."
C12_Witness ==
    /\ ReachesCandidate
    /\ script = "piper1"
    /\ FirstCandidate = Candidate("SAFETY", "HIGH", ContentParts(<<Part(<<"Hi.">>)>>))
    /\ SafetyWarningOutcome(result.value, <<"Hi.">>)

-----------------------------------------------------------------------------
(* Text extraction and fence cleaning *)

\* the text fields of all parts of a candidate, in order, joined and trimmed;
\* a part without a text field adds nothing
JoinedText(c) ==
    strip(join([i \in 1..Len(c.content.parts) |->
                  IF c.content.parts[i].hasText THEN c.content.parts[i].text ELSE <<>>]))

\* the first candidate has parts and finished normally
PlainCandidate ==
    /\ ReachesCandidate
    /\ ~NoParts(FirstCandidate)
    /\ FirstCandidate.finishReason \in {Absent, "STOP", "FINISH_REASON_UNSPECIFIED"}

\* C13: the text the parser extracts from the first candidate is the text
\* fields of all its parts, in order, joined and trimmed: when that text is
\* not empty (and not a fenced block) it is the value returned for a candidate
\* that finished normally, so no part after the first is dropped and a part
\* without text adds nothing.
C13_AllPartsJoinedAndTrimmed ==
    (PlainCandidate /\ JoinedText(FirstCandidate) # <<>> /\ ~Fenced(JoinedText(FirstCandidate)))
    => result.value = JoinedText(FirstCandidate)

\* the positions of the line breaks of t
Newlines(t) == {i \in 1..Len(t) : t[i] = "\n"}

FirstNewline(t) == CHOOSE i \in Newlines(t) : \A j \in Newlines(t) : i <= j

LastNewline(t) == CHOOSE i \in Newlines(t) : \A j \in Newlines(t) : j <= i

\* t starts and ends with a fence, has at least 2 lines, and what follows the
\* fence on its first line is zero or one word
FenceToClean(t) ==
    /\ Fenced(t)
    /\ Newlines(t) # {}
    /\ word_count(SubSeq(t, 2, FirstNewline(t) - 1)) <= 1

\* t without its first and its last line
WithoutFenceLines(t) == SubSeq(t, FirstNewline(t) + 1, LastNewline(t) - 1)

\* the one text of the answer, and that text trimmed
AnswerText == FirstCandidate.content.parts[1].text

\* C14 (as stated): a success text that starts and ends with a fence, has at
\* least 2 lines and a first line of at most one word after the fence is
\* returned with its first and last lines removed; every other text is
\* returned as it is.
C14_FenceLinesRemoved ==
    (ParsedBody /\ strip(AnswerText) # <<>>)
    => result.value = (IF FenceToClean(strip(AnswerText))
                       THEN WithoutFenceLines(strip(AnswerText))
                       ELSE strip(AnswerText))

\* C14 (amended): in code.py and gemini.espeak_and_piper1.py such a text is
\* returned with its first and last lines removed and the rest trimmed of
\* leading and trailing whitespace, and every other text is returned as it is;
\* gemini.espeak_and_piper.py returns every text as it is, fences included.
C14_FenceCleaning ==
    (ParsedBody /\ strip(AnswerText) # <<>>)
    => /\ script \in {"code", "piper1"} =>
            result.value = (IF FenceToClean(strip(AnswerText))
                            THEN strip(WithoutFenceLines(strip(AnswerText)))
                            ELSE strip(AnswerText))
       /\ script = "piper" => result.value = AnswerText

\* C14 witness: a fenced block with a language tag, returned without its
\* fence lines
C14_Witness ==
    /\ ParsedBody
    /\ script = "code"
    /\ AnswerText = <<Fence, "hello", "\n", "hello", "\n", Fence>>
    /\ result.value = <<"hello">>

-----------------------------------------------------------------------------
(* The parse step of every script, src/gemini.espeak.py included, applied to *)
(* what the transport hands over                                             *)

\* src/gemini.espeak.py, get_gemini_response from the status check on: no
\* try block, response.json()['candidates'][0]['content']['parts'][0]['text']
parse_espeak(response_data) ==
    IF response_data.json # "object" THEN Raised
    ELSE IF ~truthy_candidates(response_data.candidates) THEN Raised
    ELSE LET candidate == response_data.candidates.items[1]
         IN  IF candidate.kind # "dict" THEN Raised
             ELSE IF candidate.content.kind # "dict" THEN Raised
             ELSE IF ~candidate.content.hasParts \/ candidate.content.parts = <<>> THEN Raised
             ELSE IF ~candidate.content.parts[1].hasText THEN Raised
             ELSE Returned(candidate.content.parts[1].text)

\* the scripts whose parse step is modelled
ParseScripts == Scripts \cup {"espeak"}

\* the parse step of script s on what its transport step handed over
parse_step(s, response) ==
    IF s = "espeak" THEN parse_espeak(response.body)
    ELSE Returned(_parse_gemini_response(s, response))

InitTotal ==
    /\ script \in ParseScripts
    /\ mode = "total"
    /\ history = <<>>
    /\ fs = InitialFiles
    /\ last = NoLast
    /\ ops = 0
    /\ running = FALSE
    /\ arg \in {Response(b) : b \in Bodies}
              \cup (IF script = "espeak" THEN {} ELSE TransportErrors(script))
    /\ result = Pending

ParseStep ==
    /\ mode = "total"
    /\ ~result.done
    /\ result' = Done(parse_step(script, arg))
    /\ UNCHANGED <<script, mode, history, fs, last, ops, running, arg>>

NextTotal == ParseStep

SpecTotal == InitTotal /\ [][NextTotal]_vars

\* Failed(Decode)
DecodeOutcome(v) == startswith(v, <<"Error", " decoding API response JSON: ">>)

\* C15: the parse step is total: for every transport outcome and every body
\* it returns a value and never raises to its caller; a transport error is
\* returned unchanged, and a body that is not valid JSON gives Failed(Decode).
C15_ParseIsTotal ==
    (mode = "total" /\ result.done)
    => /\ ~result.value.raised
       /\ arg.isStr => result.value.text = arg.str
       /\ (~arg.isStr /\ arg.body.json = "invalid") => DecodeOutcome(result.value.text)

-----------------------------------------------------------------------------
(* The transport step of every script applied to one outcome of the network *)

\* src/gemini.espeak1.py: no timeout argument, RequestException only
_call_gemini_api_espeak1(net) ==
    CASE net.kind = "ok" -> Returned(<<>>)
      [] net.kind \in {"Timeout", "HTTPError", "ConnectionError"} ->
            Returned(<<"Error", " communicating with API: ", "<e>">>)
      [] net.kind = "Exception" -> Raised

\* src/gemini.espeak.py: requests.post outside any try block, no
\* raise_for_status; a status other than 200 gives the whole response.text
post_espeak(net) ==
    CASE net.kind = "ok" -> Returned(<<>>)
      [] net.kind = "HTTPError" ->
            Returned(<<"Error", ":", " ", ToString(net.status), " - ">> \o HttpText(net.http_body))
      [] net.kind \in {"Timeout", "ConnectionError", "Exception"} -> Raised

\* src/gen_ai_console/gemini_handler.py, the except branches of generate_text
post_handler(net) ==
    CASE net.kind = "ok" -> Returned(<<>>)
      [] net.kind = "HTTPError" ->
            Returned(<<"Error", ":", " API request failed (Status ", ToString(net.status), ").">>)
      [] net.kind \in {"Timeout", "ConnectionError"} ->
            Returned(<<"Error", ":", " Could not connect to the API. (", "<req_err>", ")">>)
      [] net.kind = "Exception" ->
            Returned(<<"Error", ":", " An unexpected error occurred. (", "<e>", ")">>)

\* the scripts whose transport step is modelled
SendScripts == Scripts \cup {"espeak1", "espeak", "handler"}

\* the scripts that pass a timeout to requests.post
HasTimeout(s) == s \in {"code", "piper1", "piper", "handler"}

\* the transport step of script s
send(s, net) ==
    CASE s \in Scripts -> _call_gemini_api(s, net)
      [] s = "espeak1" -> _call_gemini_api_espeak1(net)
      [] s = "espeak" -> post_espeak(net)
      [] s = "handler" -> post_handler(net)

\* raise_for_status raises for these
ErrorStatuses == {400, 404, 429, 500, 503, 598}

\* what the network can do to one request of script s: requests raises
\* Timeout only when a timeout was passed
SendNets(s) ==
    {NetOk(TextBody(<<"Hi.">>)), NetConnectionError, NetException}
    \cup (IF HasTimeout(s) THEN {NetTimeout} ELSE {})
    \cup {NetHTTPError(st, hb) : st \in ErrorStatuses, hb \in HttpBodies}

InitSend ==
    /\ script \in SendScripts
    /\ mode = "send"
    /\ history = <<>>
    /\ fs = InitialFiles
    /\ last = NoLast
    /\ ops = 0
    /\ running = FALSE
    /\ arg \in SendNets(script)
    /\ result = Pending

Send ==
    /\ mode = "send"
    /\ ~result.done
    /\ result' = Done(send(script, arg))
    /\ UNCHANGED <<script, mode, history, fs, last, ops, running, arg>>

NextSend == Send

SpecSend == InitSend /\ [][NextSend]_vars

\* the transport step has returned or raised
Sent == mode = "send" /\ result.done

\* TransportError(Timeout)
TimeoutOutcome(v) == v = <<"Error", ":", " API request timed out.">>

\* C16: the transport step never lets an exception escape: for a timeout, a
\* connection failure, an HTTP error status (also when reading the error body
\* fails) and any other exception it returns an error value, and a timeout is
\* returned as the Timeout kind.
C16_SendNeverRaises ==
    (Sent /\ arg.kind # "ok")
    => /\ ~result.value.raised
       /\ result.value.text # <<>>
       /\ arg.kind = "Timeout" => TimeoutOutcome(result.value.text)

\* TransportError(HttpError) that carries the status
HttpErrorOutcome(v, status) ==
    /\ startswith(v, <<"Error", ":">>)
    /\ Contains(v, <<ToString(status)>>)

\* C18: for an HTTP status in [400, 599) the transport step returns HttpError
\* with that status; the message is the body's error.message when the body is
\* JSON that carries one, and otherwise an excerpt of the raw body of at most
\* EXCERPT characters, so a longer body is never returned whole.
C18_HttpErrorMessage ==
    (Sent /\ arg.kind = "HTTPError")
    => /\ ~result.value.raised
       /\ HttpErrorOutcome(result.value.text, arg.status)
       /\ arg.http_body = "json_message" => Contains(result.value.text, <<"X">>)
       /\ arg.http_body \in {"not_json", "not_json_long"} =>
             Contains(result.value.text, Prefix(HttpText(arg.http_body), EXCERPT))
       /\ Len(HttpText(arg.http_body)) > EXCERPT =>
             ~Contains(result.value.text, HttpText(arg.http_body))

-----------------------------------------------------------------------------
(* One API call in flight: the chat loop posts a request and blocks until    *)
(* requests.post returns or raises                                           *)

\* the timeout argument of requests.post, in seconds
TIMEOUT(s) ==
    CASE s = "code" -> 240
      [] s = "piper1" -> 180
      [] s = "piper" -> 60
      [] s = "handler" -> 90

\* the server answers after some seconds, or never
AnswerDelays == {0, 100, 250}

Servers ==
    {[answers |-> FALSE, after |-> 0]} \cup {[answers |-> TRUE, after |-> d] : d \in AnswerDelays}

InitWait ==
    /\ script \in SendScripts
    /\ mode = "wait"
    /\ history = <<>>
    /\ fs = InitialFiles
    /\ last = NoLast
    /\ ops = 0
    /\ running = FALSE
    /\ arg \in Servers
    /\ result = Pending

\* the chat loop calls get_gemini_response, which posts the request
Post ==
    /\ mode = "wait"
    /\ ~running
    /\ ~result.done
    /\ running' = TRUE
    /\ ops' = 0
    /\ UNCHANGED <<script, mode, history, fs, last, arg, result>>

\* time passes while the call blocks
Tick ==
    /\ mode = "wait"
    /\ running
    /\ ops < (IF HasTimeout(script) THEN TIMEOUT(script) ELSE MaxWait)
    /\ ops' = ops + TickSeconds
    /\ UNCHANGED <<script, mode, history, fs, last, running, arg, result>>

\* the answer arrives before any timeout: the call returns the response
Answer ==
    /\ mode = "wait"
    /\ running
    /\ arg.answers
    /\ ops >= arg.after
    /\ HasTimeout(script) => arg.after < TIMEOUT(script)
    /\ running' = FALSE
    /\ result' = Done(send(script, NetOk(TextBody(<<"Hi.">>))))
    /\ UNCHANGED <<script, mode, history, fs, last, ops, arg>>

\* the timeout passed to requests.post runs out: requests raises Timeout
TimeoutFires ==
    /\ mode = "wait"
    /\ running
    /\ HasTimeout(script)
    /\ ops >= TIMEOUT(script)
    /\ ~(arg.answers /\ arg.after < TIMEOUT(script))
    /\ running' = FALSE
    /\ result' = Done(send(script, NetTimeout))
    /\ UNCHANGED <<script, mode, history, fs, last, ops, arg>>

\* the chat loop prints the response and reads the next input
ReadNext ==
    /\ mode = "wait"
    /\ result.done
    /\ result' = Pending
    /\ UNCHANGED <<script, mode, history, fs, last, ops, running, arg>>

NextWait == Post \/ Tick \/ Answer \/ TimeoutFires \/ ReadNext

SpecWait ==
    /\ InitWait
    /\ [][NextWait]_vars
    /\ WF_vars(Tick)
    /\ WF_vars(Answer)
    /\ WF_vars(TimeoutFires)
    /\ WF_vars(ReadNext)

\* the longest timeout any script passes
LongestTimeout == TIMEOUT("code")

\* C17: every API call has a bounded timeout: no call is in flight for longer
\* than the longest timeout, so a call to a server that never answers comes
\* back to the chat loop as a Timeout error and the loop reads its next input.
C17_CallsAreBounded ==
    (mode = "wait" /\ running) => ops < LongestTimeout + TickSeconds

\* C17, as a property of behaviours: a call in flight to a server that never
\* answers leads to a Timeout error returned to the chat loop
C17_SilentServerTimesOut ==
    (mode = "wait" /\ running /\ ~arg.answers)
        ~> (result.done /\ ~result.value.raised /\ TimeoutOutcome(result.value.text))

-----------------------------------------------------------------------------
\* an iteration of the main loop that called get_gemini_response
Called == mode = "session" /\ last.op \in {"chat", "gen"} /\ last.net.kind # "none"

-----------------------------------------------------------------------------
\* a file that holds a JSON list of 2-element lists of two text values
HistoryFile(file) ==
    /\ file.kind = "json"
    /\ file.isList
    /\ \A i \in 1..Len(file.items) :
        /\ file.items[i].isList
        /\ Len(file.items[i].elems) = 2
        /\ \A k \in 1..2 : file.items[i].elems[k].type = "str"

\* an iteration of the main loop that ran the load command on a file name
Loaded == mode = "session" /\ last.op = "load"

\* C20: loading a file that is missing, is not JSON, or is not a list of
\* 2-element arrays of text leaves the history as it was: the load replaces
\* the history only when every item is a 2-element array of two text values.
C20_InvalidLoadKeepsHistory ==
    (Loaded /\ ~HistoryFile(fs[last.query[3]])) => history = last.before

-----------------------------------------------------------------------------
(* Saving and loading the history of a session that already holds turns *)

\* histories a session holds: at most the cap of turns, each a pair of texts
RoundHistories ==
    {<<>>, NumberedTurns(1), NumberedTurns(2), NumberedTurns(MAX_HISTORY),
     <<Turn(Str(<<"Hello">>), Str(<<>>))>>}

InitRound ==
    /\ script \in Scripts
    /\ mode = "session"
    /\ history \in RoundHistories
    /\ fs = InitialFiles
    /\ last = NoLast
    /\ ops = 0
    /\ running = TRUE
    /\ arg = <<>>
    /\ result = Pending

NextRound == Save \/ Clear \/ Load

SpecRound == InitRound /\ [][NextRound]_vars

-----------------------------------------------------------------------------
\* a history entry whose query or response is not text
Malformed(turn) == ~(isinstance_str(turn[1]) /\ isinstance_str(turn[2]))

\* the entries of h that are pairs of texts, in order
WellFormedTurns(h) == SelectSeq(h, LAMBDA turn : ~Malformed(turn))

\* the texts of the entries of a payload
PayloadTexts(payload) == {payload.contents[k].parts[1].text : k \in 1..Len(payload.contents)}

\* a chat iteration that built a payload from the history it found
Built == mode = "session" /\ last.op = "chat" /\ last.payload # NoPayload

\* C22: the build never aborts because of a malformed history entry: for every
\* history reachable in a session, an entry whose query or response is not
\* text contributes no user/model entries and none of its content appears in
\* the payload, which still holds the remaining turns and the final user entry.
C22_MalformedEntriesSkipped ==
    Built =>
        LET h == last.before
            contents == last.payload.contents
        IN  /\ Len(contents) = 2 * Len(WellFormedTurns(h)) + 1
            /\ contents[Len(contents)].role = "user"
            /\ \A i \in 1..Len(WellFormedTurns(h)) :
                /\ contents[2 * i - 1] = Entry("user", WellFormedTurns(h)[i][1].text)
                /\ contents[2 * i] = Entry("model", WellFormedTurns(h)[i][2].text)
            /\ \A i \in 1..Len(h), k \in 1..2 :
                (Malformed(h[i]) /\ ~isinstance_str(h[i][k]))
                    => \A t \in PayloadTexts(last.payload) : ~Contains(t, h[i][k].text)

-----------------------------------------------------------------------------
(* The main loop and the exceptions raised while one iteration runs:         *)
(* code.py, gen_ai_console/app.py and gemini.espeak.py                       *)

LoopScripts == {"code", "app", "espeak"}

\* what an iteration can raise: the user's interrupt, and exceptions nobody
\* expected (a ValueError, a KeyError, the EOFError of input())
Exceptions == {"KeyboardInterrupt", "ValueError", "KeyError", "EOFError"}

\* where in the iteration it is raised: reading the input, calling the API
\* and handling the response, speaking the response
Stages == {"input", "call", "speak"}

\* the except clauses around the loop body: "continue" goes back to reading
\* the input, "break" leaves the loop, "crash" lets the exception leave main
on_exception(s, exc, stage) ==
    CASE s = "code" ->
            IF exc \in {"ValueError", "KeyboardInterrupt"} THEN "break" ELSE "continue"
      [] s = "app" ->
            IF stage = "speak" /\ exc # "KeyboardInterrupt" THEN "continue" ELSE "break"
      [] s = "espeak" -> "crash"

NoException == [exc |-> "none", stage |-> "none"]

InitLoop ==
    /\ script \in LoopScripts
    /\ mode = "loop"
    /\ history = <<>>
    /\ fs = InitialFiles
    /\ last = NoLast
    /\ ops = 0
    /\ running = TRUE
    /\ arg = NoException
    /\ result = Pending

InLoop == mode = "loop" /\ running /\ ops < MaxTurns

\* an iteration that raises nothing and is not the exit command
TurnCompletes ==
    /\ InLoop
    /\ \E op \in {"blank", "chat"} : last' = [NoLast EXCEPT !.op = op]
    /\ arg' = NoException
    /\ ops' = ops + 1
    /\ UNCHANGED <<script, mode, history, fs, running, result>>

\* exit: break
TurnExits ==
    /\ InLoop
    /\ last' = [NoLast EXCEPT !.op = "exit"]
    /\ arg' = NoException
    /\ running' = FALSE
    /\ ops' = ops + 1
    /\ UNCHANGED <<script, mode, history, fs, result>>

\* an iteration in which an exception is raised
TurnRaises ==
    /\ InLoop
    /\ \E exc \in Exceptions, stage \in Stages :
        /\ last' = [NoLast EXCEPT !.op = "raised"]
        /\ arg' = [exc |-> exc, stage |-> stage]
        /\ running' = (on_exception(script, exc, stage) = "continue")
        /\ result' = IF on_exception(script, exc, stage) = "crash" THEN Done(Raised) ELSE result
    /\ ops' = ops + 1
    /\ UNCHANGED <<script, mode, history, fs>>

NextLoop == TurnCompletes \/ TurnExits \/ TurnRaises

SpecLoop == InitLoop /\ [][NextLoop]_vars

\* C23: an unexpected exception raised while one chat turn is processed does
\* not end the session: the main loop reports it and goes back to reading the
\* next input; only the exit command, a user interrupt or a missing API key
\* ends the loop.
C23_UnexpectedExceptionContinues ==
    (mode = "loop" /\ last.op = "raised" /\ arg.exc # "KeyboardInterrupt") => running

-----------------------------------------------------------------------------
(* The main loops of gemini.espeak.py and gem.espk.py: exit, (in             *)
(* gemini.espeak.py) the modifier command, and a chat for every other line   *)

SimpleScripts == {"espeak", "gem_espk"}

\* text.split(): the maximal runs of non-whitespace tokens
RECURSIVE split(_)
split(s) ==
    IF s = <<>> THEN <<>>
    ELSE IF Head(s) \in Whitespace THEN split(Tail(s))
    ELSE LET rest == split(Tail(s))
         IN  IF Len(s) > 1 /\ s[2] \notin Whitespace
             THEN <<<<Head(s)>> \o Head(rest)>> \o Tail(rest)
             ELSE <<<<Head(s)>>>> \o rest

\* gem.espk.py: text.split()[:100]
WORD_LIMIT == 100

\* gem.espk.py, get_gemini_response after a 200: the chain of .get calls with
\* defaults, [0] on the lists, then the first 100 words or "Error: Empty response"
parse_gem_espk(response_data) ==
    IF response_data.json # "object" THEN Raised
    ELSE LET cands == response_data.candidates
         IN  IF cands.kind = "missing" THEN Returned(<<"Error", ":", " Empty response">>)
             ELSE IF cands.kind # "list" \/ cands.items = <<>> THEN Raised
             ELSE LET candidate == cands.items[1]
                  IN  IF candidate.kind # "dict" THEN Raised
                      ELSE IF candidate.content.hasParts /\ candidate.content.parts = <<>> THEN Raised
                      ELSE LET text ==
                                   IF candidate.content.hasParts /\ candidate.content.parts[1].hasText
                                   THEN candidate.content.parts[1].text
                                   ELSE <<>>
                           IN  IF text = <<>> THEN Returned(<<"Error", ":", " Empty response">>)
                               ELSE Returned(joinsep(<<" ">>, Prefix(split(text), WORD_LIMIT)))

\* gem.espk.py: requests.post outside any try block; a status other than 200
\* gives "Error <status>: <response.text>"
post_gem_espk(net) ==
    CASE net.kind = "ok" -> Returned(<<>>)
      [] net.kind = "HTTPError" ->
            Returned(<<"Error", " ", ToString(net.status), ":", " ">> \o HttpText(net.http_body))
      [] net.kind \in {"Timeout", "ConnectionError", "Exception"} -> Raised

\* get_gemini_response of the two scripts
get_gemini_response_simple(s, net) ==
    LET posted == IF s = "espeak" THEN post_espeak(net) ELSE post_gem_espk(net)
    IN  IF posted.raised \/ net.kind # "ok" THEN posted
        ELSE IF s = "espeak" THEN parse_espeak(net.body) ELSE parse_gem_espk(net.body)

\* the one-entry payload of the two scripts: modifier, recap and query in one text
payload_simple(s, query, h, modifier) ==
    LET recap == joinsep(<<"\n">>, [i \in 1..Len(h) |->
                    IF s = "espeak"
                    THEN <<"Human: ">> \o h[i][1].text \o <<"\n", "AI: ">> \o h[i][2].text
                    ELSE <<"Q: ">> \o h[i][1].text \o <<"\n", "A: ">> \o h[i][2].text])
        text == IF s = "espeak"
                THEN modifier \o <<"\n", "\n", "Conversation history:", "\n">> \o recap
                     \o <<"\n", "\n", "Current query: ">> \o query
                ELSE modifier \o <<"\n">> \o recap \o <<"\n", "Query: ">> \o query
    IN  [contents |-> <<[parts |-> <<[text |-> text]>>]>>]

SimpleModifier == <<"You are a code-based instantiation of pure, computational logic.">>

\* lines the user types
SimpleLines == {<<" ">>, <<"EXIT">>, <<"Hello">>, <<"modifier:", "x">>}

SimpleNets ==
    {NetConnectionError, NetHTTPError(500, "not_json"),
     NetOk(TextBody(<<"Hi.">>)), NetOk(TextBody(<<"Hi.", " ", "\n", "there">>)),
     NetOk(JsonObject(NoError, NoFeedback, [kind |-> "missing", items |-> <<>>]))}

InitSimple ==
    /\ script \in SimpleScripts
    /\ mode = "session"
    /\ history = <<>>
    /\ fs = InitialFiles
    /\ last = NoLast
    /\ ops = 0
    /\ running = TRUE
    /\ arg = <<>>
    /\ result = Pending

\* exit: break
SimpleExit ==
    /\ MainLoop
    /\ \E line \in SimpleLines :
        /\ lower(strip(line)) = <<"exit">>
        /\ last' = Did("exit", strip(line))
    /\ running' = FALSE
    /\ ops' = ops + 1
    /\ UNCHANGED <<script, mode, history, fs, arg, result>>

\* gemini.espeak.py: "modifier:<name>" selects a modifier, or reports that
\* there is none of that name; continue
SimpleSetModifier ==
    /\ MainLoop
    /\ script = "espeak"
    /\ \E line \in SimpleLines :
        /\ startswith(lower(strip(line)), <<"modifier:">>)
        /\ last' = Did("modifier", strip(line))
    /\ ops' = ops + 1
    /\ UNCHANGED <<script, mode, history, fs, running, arg, result>>

\* every other line, the empty one included: get_gemini_response, print,
\* history.append((query, response)), text_to_speech(response)
SimpleChat ==
    /\ MainLoop
    /\ \E line \in SimpleLines, net \in SimpleNets :
        LET query == strip(line)
            response == get_gemini_response_simple(script, net)
            payload == payload_simple(script, query, history, SimpleModifier)
        IN  /\ lower(query) # <<"exit">>
            /\ ~(script = "espeak" /\ startswith(lower(query), <<"modifier:">>))
            /\ IF response.raised
               THEN /\ history' = history
                    /\ running' = FALSE
                    /\ last' = Asked("chat", query, net, response, NoTts, payload)
               ELSE /\ history' = Append(history, Turn(Str(query), Str(response.text)))
                    /\ running' = running
                    /\ last' = Asked("chat", query, net, response, Tts(response.text), payload)
    /\ ops' = ops + 1
    /\ UNCHANGED <<script, mode, fs, arg, result>>

NextSimple == SimpleExit \/ SimpleSetModifier \/ SimpleChat

SpecSimple == InitSimple /\ [][NextSimple]_vars

\* an iteration of a main loop on a line that is empty after trimming
BlankLine == mode = "session" /\ last.op # "none" /\ last.query = <<>>

\* C24: no API request is ever issued for a blank query: input that is empty
\* after trimming is discarded by the chat loop without building a payload,
\* without sending a request and without changing the history.
C24_BlankQueryDiscarded ==
    BlankLine =>
        /\ last.requests = 0
        /\ last.payload = NoPayload
        /\ history = last.before

-----------------------------------------------------------------------------
\* texts the model generates: a plain one, one that begins with "Error:"
OkTexts == {<<"Hi.">>, <<"Error", ":", " x">>}

\* a chat exchange answered with status 200, finishReason STOP and the text t
OkExchange(t) == Called /\ last.op = "chat" /\ last.net = NetOk(TextBody(t))

\* C25: after every exchange whose outcome is Ok(text) (HTTP 200, finishReason
\* STOP, non-empty text) exactly one turn (the raw query, text) is appended at
\* the end of the history, for every text: a generated text that itself
\* begins with "Error:" or "Warning:" is appended like any other.
C25_OkExchangeAppendsTurn ==
    \A t \in OkTexts :
        OkExchange(t) =>
            history = LastN(Append(last.before, Turn(Str(last.query), Str(t))), MAX_HISTORY)

-----------------------------------------------------------------------------
\* a returned value that carries no Error or Warning marker
PlainSuccess(v) == v = <<>> \/ Head(v) \notin {"Error", "Warning"}

\* C26: every value the parser returns as a plain success (no Error or
\* Warning marker) is non-empty text, also after the fence cleaning: no
\* response body makes the parser return the empty string as a success.
C26_PlainSuccessIsNonEmpty ==
    (mode = "parse" /\ result.done /\ PlainSuccess(result.value)) => result.value # <<>>

-----------------------------------------------------------------------------
(* gen_ai_console: app.py main and gemini_handler.generate_text *)

\* app.py: if len(conversation_history) > 10: conversation_history[-10:]
HISTORY_LIMIT_app == 10

\* generate_text after response.json(): the text of all parts joined and
\* trimmed, or an error text; an exception is caught and becomes an error text
parse_handler(response_data) ==
    IF response_data.json = "invalid"
    THEN <<"Error", ":", " Could not connect to the API. (", "<req_err>", ")">>
    ELSE IF response_data.json # "object"
    THEN <<"Error", ":", " An unexpected error occurred. (", "<e>", ")">>
    ELSE LET cands == response_data.candidates
         IN  IF truthy_candidates(cands) /\ cands.items[1].kind # "dict"
             THEN <<"Error", ":", " An unexpected error occurred. (", "<e>", ")">>
             ELSE IF /\ truthy_candidates(cands)
                     /\ cands.items[1].content.hasParts
                     /\ cands.items[1].content.parts # <<>>
             THEN LET parts == cands.items[1].content.parts
                      full_text ==
                          strip(join([i \in 1..Len(parts) |->
                                        IF parts[i].hasText THEN parts[i].text ELSE <<>>]))
                  IN  IF full_text # <<>> THEN full_text
                      ELSE <<"Error", ":", " Received an empty response from the model.">>
             ELSE IF response_data.promptFeedback.has
                     /\ response_data.promptFeedback.blockReason # Absent
             THEN <<"Error", ":", " Your request was blocked by the API. Reason: ",
                    response_data.promptFeedback.blockReason>>
             ELSE <<"Error", ":", " Could not parse the response from the model.">>

\* generate_text: contents is the history followed by the prompt as a user entry
contents_handler(prompt, h) == h \o <<Entry("user", prompt)>>

generate_text(prompt, h, net) ==
    IF net.kind = "ok" THEN parse_handler(net.body) ELSE post_handler(net).text

\* mutant of append_app: the trim keeps the last 9 entries
append_app_odd(h, user_input, response_text) ==
    LET longer == h \o <<Entry("user", user_input), Entry("model", response_text)>>
    IN  IF Len(longer) > HISTORY_LIMIT_app THEN LastN(longer, HISTORY_LIMIT_app - 1) ELSE longer

\* app.py: the two appends and the trim to the last 10 entries
append_app(h, user_input, response_text) ==
    LET longer == h \o <<Entry("user", user_input), Entry("model", response_text)>>
    IN  IF Len(longer) > HISTORY_LIMIT_app THEN LastN(longer, HISTORY_LIMIT_app) ELSE longer

AppLines == {<<" ">>, <<"EXIT">>, <<"Hello">>}

AppNets ==
    {NetTimeout, NetHTTPError(503, "not_json"),
     NetOk(TextBody(<<"Hi.">>)), NetOk(TextBody(<<"Yes.">>)), NetOk(TextBody(<<" ">>)),
     NetOk(JsonObject(NoError, [has |-> TRUE, blockReason |-> "SAFETY"], [kind |-> "list", items |-> <<>>]))}

InitApp ==
    /\ script = "app"
    /\ mode = "session"
    /\ history = <<>>
    /\ fs = InitialFiles
    /\ last = NoLast
    /\ ops = 0
    /\ running = TRUE
    /\ arg = <<>>
    /\ result = Pending

AppLoop == mode = "session" /\ script = "app" /\ running /\ ops < MaxAppTurns

\* exit: break
AppExit ==
    /\ AppLoop
    /\ \E line \in AppLines :
        /\ lower(strip(line)) = <<"exit">>
        /\ last' = Did("exit", strip(line))
    /\ running' = FALSE
    /\ ops' = ops + 1
    /\ UNCHANGED <<script, mode, history, fs, arg, result>>

\* if not user_input: continue
AppBlank ==
    /\ AppLoop
    /\ \E line \in AppLines :
        /\ strip(line) = <<>>
        /\ last' = Did("blank", strip(line))
    /\ ops' = ops + 1
    /\ UNCHANGED <<script, mode, history, fs, running, arg, result>>

\* generate_text, then the appends unless the text starts with "Error:";
\* speak says whether a speech engine is active
AppChat ==
    /\ AppLoop
    /\ \E line \in AppLines, net \in AppNets, speak \in BOOLEAN :
        LET user_input == strip(line)
            response_text == generate_text(user_input, history, net)
            ok == ~startswith(response_text, Error_)
        IN  /\ user_input # <<>>
            /\ lower(user_input) # <<"exit">>
            /\ history' = IF ok THEN append_app(history, user_input, response_text) ELSE history
            /\ last' = Asked("chat", user_input, net, Returned(response_text),
                             IF ok /\ speak THEN Tts(response_text) ELSE NoTts,
                             [contents |-> contents_handler(user_input, history)])
    /\ ops' = ops + 1
    /\ UNCHANGED <<script, mode, fs, running, arg, result>>

NextApp == AppExit \/ AppBlank \/ AppChat

SpecApp == InitApp /\ [][NextApp]_vars

\* roles user, model, user, model, ... starting with a user entry
Alternates(entries) ==
    \A i \in 1..Len(entries) : entries[i].role = (IF i % 2 = 1 THEN "user" ELSE "model")

\* C27: in every reachable state of the gen_ai_console chat loop the
\* conversation history has even length at most 10 and alternates roles
\* user, model, ... starting with a user entry, and every payload sent (the
\* history followed by the new prompt) alternates roles and ends with a user
\* entry.
C27_HistoryAlternates ==
    (mode = "session" /\ script = "app")
    => /\ Len(history) % 2 = 0
       /\ Len(history) <= HISTORY_LIMIT_app
       /\ Alternates(history)
       /\ last.op = "chat" =>
            /\ last.payload.contents = last.before \o <<Entry("user", last.query)>>
            /\ Alternates(last.payload.contents)
            /\ last.payload.contents[Len(last.payload.contents)].role = "user"

\* a sixth successful exchange: the history was full and its oldest question
\* and answer were dropped together
C27_Witness ==
    /\ mode = "session" /\ script = "app"
    /\ last.op = "chat"
    /\ Len(last.before) = HISTORY_LIMIT_app
    /\ Len(history) = HISTORY_LIMIT_app
    /\ history # last.before
    /\ history[1] = last.before[3]

-----------------------------------------------------------------------------
(* The file namers: gemini_html_namer.py, batch_html_renamer.py and          *)
(* ollama_renamer.py. The directory is a set of <<name, content>> pairs, a   *)
(* name a sequence of tokens (the extension, the same for all, left out)     *)

NamerScripts == {"gemini_html_namer", "batch_html_renamer", "ollama_renamer"}

\* the files the directory may hold when the run starts
NamerFiles == {<<"a">>, <<"A">>, <<"a", "_", "1">>}

\* the stems the model suggests; <<>> is no usable suggestion
SuggestedStems == {<<>>, <<"a">>, <<"n">>, <<"a", "_", "1">>}

\* sanitize_filename on the names above: lower case
sanitize_filename(name) == [i \in 1..Len(name) |-> IF name[i] = "A" THEN "a" ELSE name[i]]

\* Path.exists
exists(dir, name) == \E f \in dir : f[1] = name

\* os.rename(from, to): a file at the target path is replaced
rename(dir, from, to) ==
    {f \in dir : f[1] # from /\ f[1] # to} \cup {<<to, g[2]>> : g \in {f \in dir : f[1] = from}}

\* f"{base_name}_{counter}"
numbered(base_name, counter) ==
    IF counter = 0 THEN base_name ELSE base_name \o <<"_", ToString(counter)>>

\* mutant of get_unique_filepath: the suggested name is taken as it is
RECURSIVE get_unique_filepath_unchecked(_, _, _)
get_unique_filepath_unchecked(dir, base_name, counter) == base_name

\* get_unique_filepath (the same loop inline in batch_html_renamer): the first
\* of base, base_1, base_2, ... that does not exist; counter 0 is the bare name
RECURSIVE get_unique_filepath(_, _, _)
get_unique_filepath(dir, base_name, counter) ==
    IF exists(dir, numbered(base_name, counter))
    THEN get_unique_filepath(dir, base_name, counter + 1)
    ELSE numbered(base_name, counter)

\* whether a suggestion for a file enters the rename plan
planned(s, original, stem) ==
    IF s = "ollama_renamer" THEN stem # <<>> /\ stem # original
    ELSE stem # <<>> /\ stem # sanitize_filename(original)

\* the path a planned rename targets, or <<>> when the rename is skipped
target(s, dir, original, stem) ==
    IF s = "ollama_renamer"
    THEN IF exists(dir, stem) \/ stem = original THEN <<>> ELSE stem
    ELSE LET new_filepath == get_unique_filepath(dir, stem, 0)
         IN  IF s = "gemini_html_namer" /\ new_filepath = original THEN <<>> ELSE new_filepath

\* mutant of main_backup: a failed backup does not stop the run
main_backup_continue(s, cfg, backup_ok, confirmed) ==
    IF s = "ollama_renamer" THEN [phase |-> "renaming", archive |-> "none"]
    ELSE IF cfg.backup /\ ~cfg.dry_run
    THEN IF backup_ok THEN [phase |-> "renaming", archive |-> "written"]
         ELSE [phase |-> "renaming", archive |-> "failed"]
    ELSE IF s = "gemini_html_namer" /\ ~cfg.backup /\ ~cfg.dry_run /\ ~confirmed
    THEN [phase |-> "aborted", archive |-> "none"]
    ELSE [phase |-> "renaming", archive |-> "none"]

\* main() up to the renames: the backup when it is enabled and dry-run is off
\* (a failed one aborts), in gemini_html_namer the question asked when both
\* are off; ollama_renamer has neither
main_backup(s, cfg, backup_ok, confirmed) ==
    IF s = "ollama_renamer" THEN [phase |-> "renaming", archive |-> "none"]
    ELSE IF cfg.backup /\ ~cfg.dry_run
    THEN IF backup_ok THEN [phase |-> "renaming", archive |-> "written"]
         ELSE [phase |-> "aborted", archive |-> "failed"]
    ELSE IF s = "gemini_html_namer" /\ ~cfg.backup /\ ~cfg.dry_run /\ ~confirmed
    THEN [phase |-> "aborted", archive |-> "none"]
    ELSE [phase |-> "renaming", archive |-> "none"]

\* the files of a directory in the order they are walked
RECURSIVE walk(_)
walk(names) ==
    IF names = {} THEN <<>>
    ELSE LET first == CHOOSE n \in names : \A m \in names : Len(n) <= Len(m) /\ (Len(n) = Len(m) => (n = <<"A">> \/ m # <<"A">>))
         IN  <<first>> \o walk(names \ {first})

NamerConfigs(s) ==
    IF s = "ollama_renamer" THEN {[dry_run |-> FALSE, backup |-> FALSE]}
    ELSE [dry_run : BOOLEAN, backup : BOOLEAN]

InitRename ==
    /\ script \in NamerScripts
    /\ mode = "rename"
    /\ history = <<>>
    /\ \E names \in (SUBSET NamerFiles) \ {{}} : fs = {<<n, n>> : n \in names}
    /\ last = NoLast
    /\ ops = 0
    /\ running = TRUE
    /\ \E cfg \in NamerConfigs(script), stems \in [NamerFiles -> SuggestedStems] :
        arg = [dry_run |-> cfg.dry_run, backup |-> cfg.backup, initial |-> fs,
               plan |-> LET files == walk({f[1] : f \in fs})
                        IN  [i \in 1..Len(files) |-> [original |-> files[i], stem |-> stems[files[i]]]]]
    /\ result = [phase |-> "start", archive |-> "none"]

\* main() before the renames
StartRun ==
    /\ mode = "rename"
    /\ result.phase = "start"
    /\ \E backup_ok \in BOOLEAN, confirmed \in BOOLEAN :
        result' = main_backup(script, arg, backup_ok, confirmed)
    /\ running' = (result'.phase = "renaming")
    /\ UNCHANGED <<script, mode, history, fs, last, ops, arg>>

\* one iteration of the rename loop; rename_ok: os.rename does not raise
RenameNext ==
    /\ mode = "rename"
    /\ result.phase = "renaming"
    /\ arg.plan # <<>>
    /\ \E rename_ok \in BOOLEAN :
        LET original == Head(arg.plan).original
            stem == Head(arg.plan).stem
            new_filepath == IF planned(script, original, stem)
                            THEN target(script, fs, original, stem) ELSE <<>>
        IN  IF new_filepath # <<>> /\ ~arg.dry_run /\ rename_ok
            THEN /\ fs' = rename(fs, original, new_filepath)
                 /\ history' = Append(history,
                        [original |-> original, stem |-> stem, to |-> new_filepath,
                         existed |-> exists(fs, new_filepath), archive |-> result.archive])
            ELSE UNCHANGED <<fs, history>>
    /\ arg' = [arg EXCEPT !.plan = Tail(@)]
    /\ ops' = ops + 1
    /\ UNCHANGED <<script, mode, last, running, result>>

\* the plan is exhausted: the run ends
FinishRun ==
    /\ mode = "rename"
    /\ result.phase = "renaming"
    /\ arg.plan = <<>>
    /\ result' = [result EXCEPT !.phase = "done"]
    /\ running' = FALSE
    /\ UNCHANGED <<script, mode, history, fs, last, ops, arg>>

NextRename == StartRun \/ RenameNext \/ FinishRun

SpecRename == InitRename /\ [][NextRename]_vars

\* C28: no rename targets a path that exists: for every rename plan, also
\* when several files receive the same suggested stem or a stem equal to
\* another file's current name, each performed rename targeted a path that
\* did not exist at that moment, so the number of files is unchanged and no
\* file is overwritten.
C28_NoRenameOntoExistingPath ==
    mode = "rename"
    => /\ \A i \in 1..Len(history) : ~history[i].existed
       /\ Cardinality(fs) = Cardinality(arg.initial)
       /\ {f[2] : f \in fs} = {f[2] : f \in arg.initial}

\* two files received the same stem, which is also the current name of a
\* third file, and both were renamed, to different names
C28_Witness ==
    /\ mode = "rename"
    /\ Len(history) = 2
    /\ history[1].stem = history[2].stem
    /\ history[1].to # history[2].to
    /\ exists(arg.initial, history[1].stem)

\* C29: with backup enabled and dry-run off no file is renamed unless the
\* backup archive was written before the first rename, and a failed backup
\* aborts the run with no rename; with dry-run on no file is renamed and no
\* backup archive is written.
C29_BackupBeforeRename ==
    mode = "rename"
    => /\ (arg.backup /\ ~arg.dry_run) =>
            /\ \A i \in 1..Len(history) : history[i].archive = "written"
            /\ result.archive = "failed" => (result.phase = "aborted" /\ history = <<>>)
            /\ result.phase \in {"renaming", "done"} => result.archive = "written"
       /\ arg.dry_run => (history = <<>> /\ fs = arg.initial /\ result.archive = "none")

\* a run with backup enabled and dry-run off that wrote the archive and then
\* renamed a file
C29_Witness ==
    /\ mode = "rename"
    /\ arg.backup /\ ~arg.dry_run
    /\ result.archive = "written"
    /\ history # <<>>
    /\ fs # arg.initial

-----------------------------------------------------------------------------
(* timer.coffee.py, french_press_timer: ops is next_step_index, arg the last *)
(* reading of the elapsed seconds, history the steps announced               *)

\* the due times of the three steps, in seconds
STEPS == <<0, 65, 175>>

\* if elapsed_seconds >= 175: break
TIMER_END == 175

\* readings of int(time.time() - start_time) the loop may see
Readings == 0..MaxElapsed

InitTimer ==
    /\ script = "timer"
    /\ mode = "timer"
    /\ history = <<>>
    /\ fs = InitialFiles
    /\ last = NoLast
    /\ ops = 0
    /\ running = TRUE
    /\ arg = 0
    /\ result = Pending

\* before the loop: the first step is printed and spoken, next_step_index = 1
TimerStart ==
    /\ mode = "timer"
    /\ running
    /\ ops = 0
    /\ history' = <<[step |-> 1, at |-> 0]>>
    /\ ops' = 1
    /\ UNCHANGED <<script, mode, fs, last, running, arg, result>>

\* one iteration of the loop on a reading not smaller than the one before;
\* leaving the loop prints the completion message
TimerIteration ==
    /\ mode = "timer"
    /\ running
    /\ ops >= 1
    /\ \E elapsed_seconds \in Readings :
        LET due == ops < Len(STEPS) /\ elapsed_seconds >= STEPS[ops + 1]
        IN  /\ elapsed_seconds >= arg
            /\ arg' = elapsed_seconds
            /\ history' = IF due THEN Append(history, [step |-> ops + 1, at |-> elapsed_seconds])
                           ELSE history
            /\ ops' = IF due THEN ops + 1 ELSE ops
            /\ running' = (elapsed_seconds < TIMER_END)
            /\ result' = IF elapsed_seconds >= TIMER_END
                          THEN Done(<<"SYSTEM OFFLINE: TIMER COMPLETED.">>) ELSE result
    /\ UNCHANGED <<script, mode, fs, last>>

NextTimer == TimerStart \/ TimerIteration

SpecTimer == InitTimer /\ [][NextTimer]_vars

\* C30: for every non-decreasing sequence of elapsed-second readings the
\* timer announces its three steps (due at 0 s, 65 s and 175 s) each exactly
\* once and in that order, never a step before its due time, and prints the
\* completion message only after the third step has been announced.
C30_ThreeStepsThenCompletion ==
    mode = "timer"
    => /\ \A i \in 1..Len(history) : history[i].step = i /\ history[i].at >= STEPS[i]
       /\ Len(history) <= Len(STEPS)
       /\ result.done => Len(history) = Len(STEPS)

=============================================================================
